---- MODULE Spec2Model ----
(***************************************************************************)
(* A model of the map ingestion, the Segment container (XMLMap), the graph *)
(* builder and the route search of Traffic-Sim (src/src/traffic).          *)
(*                                                                         *)
(* Three specifications share the module:                                  *)
(*   SegSpec    XMLMap: addNode / addWay / addRelation,                    *)
(*              recalculateBoundaries, findNodes and its wrappers          *)
(*   RouteSpec  Graph::Graph and Graph::findRoute, one step per loop turn  *)
(*   Spec       parseXMLMap: the ParseTask workers, the three locks, the   *)
(*              shared lists and maps, the final XMLMap                    *)
(*                                                                         *)
(* Coordinates are integers (every one exactly a float, so the float       *)
(* parameters of OSMNode's constructors change nothing).  Positions in a   *)
(* list are 0-based as in the code: At(list, p) is list[p].                *)
(***************************************************************************)
EXTENDS Integers, Sequences, FiniteSets, TLC

\* ---------------------------------------------------------------- helpers

Range(s) == {s[i] : i \in 1..Len(s)}

\* vector operator[] with a 0-based position
At(list, p) == list[p + 1]

\* map_t: operator[] assignment (inserts or overwrites)
MapPut(m, k, v) == [x \in (DOMAIN m) \cup {k} |-> IF x = k THEN v ELSE m[x]]

EmptyMapT == [x \in {} |-> 0]

\* numeric_limits<size_t>::max(), the "not found" position
NoIndex == -1

\* numeric_limits<float>::min(): the smallest POSITIVE float.  Every positive
\* coordinate of the model is greater than it, every other one is smaller.
FltMin == 1

\* numeric_limits<float>::max()
FltMax == 100000

\* ----------------------------------------------------------- entity model

OSMNode(id, ver, tags, lat, lon) ==
    [id |-> id, ver |-> ver, tags |-> tags, lat |-> lat, lon |-> lon]

OSMWay(id, ver, nodes, tags) ==
    [id |-> id, ver |-> ver, tags |-> tags, nodes |-> nodes]

RelationMember(index, type) == [index |-> index, type |-> type]

OSMRelation(id, ver, tags, nodes, ways, relations) ==
    [id |-> id, ver |-> ver, tags |-> tags,
     nodes |-> nodes, ways |-> ways, relations |-> relations]

hasTag(obj, key) == \E i \in 1..Len(obj.tags) : obj.tags[i][1] = key

RECURSIVE GetValueScan(_, _, _)
\* The loop of getValue over the tag list from position i on
GetValueScan(tags, i, key) ==
    IF i > Len(tags) THEN ""
    ELSE IF tags[i][1] = key THEN tags[i][2]
    ELSE GetValueScan(tags, i + 1, key)

RECURSIVE GetValueScanLast(_, _, _, _)
GetValueScanLast(tags, i, key, cur) ==
    IF i > Len(tags) THEN cur
    ELSE GetValueScanLast(tags, i + 1, key,
                          IF tags[i][1] = key THEN tags[i][2] ELSE cur)

\* OSMMapObject::hasTagValue: some pair holds the key and the value
hasTagValue(obj, key, value) ==
    \E i \in 1..Len(obj.tags) : obj.tags[i][1] = key /\ obj.tags[i][2] = value

\* getValue returning the value of the last pair of the key
getValueLast(obj, key) == GetValueScanLast(obj.tags, 1, key, "")

\* OSMMapObject::getValue
getValue(obj, key) == GetValueScan(obj.tags, 1, key)

\* ------------------------------------------------------------- XMLMap

\* XMLMap::XMLMap(): empty lists and maps, then recalculateBoundaries()
XMLMapEmpty ==
    [nodeList |-> <<>>, wayList |-> <<>>, relationList |-> <<>>,
     nodeMap |-> EmptyMapT, wayMap |-> EmptyMapT, relationMap |-> EmptyMapT,
     lowerLat |-> -90, upperLat |-> 90, lowerLon |-> -180, upperLon |-> 180]

RECURSIVE ScanMax(_, _, _)
\* the running maximum of recalculateBoundaries' loop, from its start value
ScanMax(vals, i, cur) ==
    IF i > Len(vals) THEN cur
    ELSE ScanMax(vals, i + 1, IF vals[i] > cur THEN vals[i] ELSE cur)

RECURSIVE ScanMin(_, _, _)
ScanMin(vals, i, cur) ==
    IF i > Len(vals) THEN cur
    ELSE ScanMin(vals, i + 1, IF vals[i] < cur THEN vals[i] ELSE cur)

Lats(list) == [i \in 1..Len(list) |-> list[i].lat]
Lons(list) == [i \in 1..Len(list) |-> list[i].lon]

recalculateBoundaries(m) ==
    IF m.nodeList = <<>>
    THEN [m EXCEPT !.lowerLat = -90, !.lowerLon = -180,
                   !.upperLat = 90, !.upperLon = 180]
    ELSE [m EXCEPT !.lowerLat = ScanMin(Lats(m.nodeList), 1, FltMax),
                   !.upperLat = ScanMax(Lats(m.nodeList), 1, FltMin),
                   !.lowerLon = ScanMin(Lons(m.nodeList), 1, FltMax),
                   !.upperLon = ScanMax(Lons(m.nodeList), 1, FltMin)]

\* XMLMap::XMLMap(nodes, ways, relations, nodeMap, wayMap, relationMap)
XMLMap(nodes, ways, relations, pNodeMap, pWayMap, pRelationMap) ==
    recalculateBoundaries(
        [nodeList |-> nodes, wayList |-> ways, relationList |-> relations,
         nodeMap |-> pNodeMap, wayMap |-> pWayMap, relationMap |-> pRelationMap,
         lowerLat |-> 0, upperLat |-> 0, lowerLon |-> 0, upperLon |-> 0])

\* XMLMap::hasNodes, hasWays, hasRelations and empty
hasNodes(m) == Len(m.nodeList) = 0
hasWays(m) == Len(m.wayList) = 0
hasRelations(m) == Len(m.relationList) = 0
empty(m) == ~hasNodes(m) /\ ~hasWays(m) /\ ~hasRelations(m)

getNodeIndex(m, id) == IF id \in DOMAIN m.nodeMap THEN m.nodeMap[id] ELSE NoIndex
getWayIndex(m, id) == IF id \in DOMAIN m.wayMap THEN m.wayMap[id] ELSE NoIndex
getRelationIndex(m, id) ==
    IF id \in DOMAIN m.relationMap THEN m.relationMap[id] ELSE NoIndex

hasNodeIndex(m, id) == id \in DOMAIN m.nodeMap

\* getNode / getWay / getRelation index the list with the position found and
\* do not test it: for an absent identifier the position is NoIndex and the
\* read is outside the list.  InList says whether the read is inside.
InList(list, p) == p >= 0 /\ p < Len(list)
getNode(m, id) == At(m.nodeList, getNodeIndex(m, id))
getWay(m, id) == At(m.wayList, getWayIndex(m, id))
getRelation(m, id) == At(m.relationList, getRelationIndex(m, id))

\* Mutant of ExtendBoundaries: the longitude borders are never extended
ExtendBoundariesLatOnly(m, nd) ==
    IF nd.lat < m.lowerLat THEN [m EXCEPT !.lowerLat = nd.lat]
    ELSE IF nd.lat > m.upperLat THEN [m EXCEPT !.upperLat = nd.lat]
    ELSE m

\* The boundary update of addNode
ExtendBoundaries(m, nd) ==
    LET a == IF nd.lat < m.lowerLat THEN [m EXCEPT !.lowerLat = nd.lat]
             ELSE IF nd.lat > m.upperLat THEN [m EXCEPT !.upperLat = nd.lat]
             ELSE m
    IN  IF nd.lon < a.lowerLon THEN [a EXCEPT !.lowerLon = nd.lon]
        ELSE IF nd.lon > a.upperLon THEN [a EXCEPT !.upperLon = nd.lon]
        ELSE a

\* addNode's return value
addNodeRet(m, nd) == nd.id \notin DOMAIN m.nodeMap

\* Mutant of addNode: the index entry is written after the push_back, with
\* the size the list has then
addNodeIndexAfterPush(m, nd, updateBoundaries) ==
    IF nd.id \in DOMAIN m.nodeMap THEN m
    ELSE LET ins == [m EXCEPT !.nodeMap = MapPut(m.nodeMap, nd.id, Len(m.nodeList) + 1),
                              !.nodeList = Append(m.nodeList, nd)]
         IN  IF updateBoundaries THEN ExtendBoundaries(ins, nd) ELSE ins

\* Mutant of addNode: the node is appended without the test of the index
addNodeUntested(m, nd, updateBoundaries) ==
    LET ins == [m EXCEPT !.nodeMap = MapPut(m.nodeMap, nd.id, Len(m.nodeList)),
                         !.nodeList = Append(m.nodeList, nd)]
    IN  IF updateBoundaries THEN ExtendBoundaries(ins, nd) ELSE ins

\* XMLMap::addNode: the map after the call
addNode(m, nd, updateBoundaries) ==
    IF nd.id \in DOMAIN m.nodeMap THEN m
    ELSE LET ins == [m EXCEPT !.nodeMap = MapPut(m.nodeMap, nd.id, Len(m.nodeList)),
                              !.nodeList = Append(m.nodeList, nd)]
         IN  IF updateBoundaries THEN ExtendBoundaries(ins, nd) ELSE ins

RECURSIVE AddWayChildren(_, _, _, _, _)
\* the addChildren loop of addWay, from reference i on
AddWayChildren(m, refs, i, map, updateBoundaries) ==
    IF i > Len(refs) THEN m
    ELSE IF getNodeIndex(map, refs[i]) = NoIndex
         THEN AddWayChildren(m, refs, i + 1, map, updateBoundaries)
         ELSE AddWayChildren(addNode(m, getNode(map, refs[i]), updateBoundaries),
                             refs, i + 1, map, updateBoundaries)

addWayRet(m, wd) == wd.id \notin DOMAIN m.wayMap

\* Mutant of addWay: the presence test guards the insertion of the way only,
\* the children are added either way
addWayChildrenAlways(m, wd, map, addChildren, updateBoundaries) ==
    LET ins == IF wd.id \in DOMAIN m.wayMap THEN m
               ELSE [m EXCEPT !.wayMap = MapPut(m.wayMap, wd.id, Len(m.wayList)),
                              !.wayList = Append(m.wayList, wd)]
    IN  IF addChildren
        THEN AddWayChildren(ins, wd.nodes, 1, map, updateBoundaries)
        ELSE ins

\* XMLMap::addWay: the map after the call
addWay(m, wd, map, addChildren, updateBoundaries) ==
    IF wd.id \in DOMAIN m.wayMap THEN m
    ELSE LET ins == [m EXCEPT !.wayMap = MapPut(m.wayMap, wd.id, Len(m.wayList)),
                              !.wayList = Append(m.wayList, wd)]
         IN  IF addChildren
             THEN AddWayChildren(ins, wd.nodes, 1, map, updateBoundaries)
             ELSE ins

\* What a read outside a list yields is not defined by the language: the call
\* may end the process (crash) or go on with whatever the memory held.  An
\* outcome is one of the two; the garbage values are drawn from these sets.
GarbageNodes == {OSMNode(7, 0, <<>>, 50, -20), OSMNode(2, 0, <<>>, -60, 150)}
GarbageWay == OSMWay(7, 0, <<>>, <<>>)
GarbageRelation == OSMRelation(7, 0, <<>>, <<>>, <<>>, <<>>)
OobOutcomes == {[crash |-> TRUE, node |-> OSMNode(7, 0, <<>>, 50, -20)]}
               \cup {[crash |-> FALSE, node |-> n] : n \in GarbageNodes}

RECURSIVE RelNodeLoop(_, _, _, _, _, _)
\* addRelation's loop over re.getNodes(), from member i on; st = [m, halted]
RelNodeLoop(st, mem, i, map, updateBoundaries, g) ==
    IF st.halted \/ i > Len(mem) THEN st
    ELSE IF InList(map.nodeList, getNodeIndex(map, mem[i].index))
         THEN RelNodeLoop([st EXCEPT !.m = addNode(st.m, getNode(map, mem[i].index),
                                                   updateBoundaries)],
                          mem, i + 1, map, updateBoundaries, g)
         ELSE IF g.crash THEN [st EXCEPT !.halted = TRUE]
         ELSE RelNodeLoop([st EXCEPT !.m = addNode(st.m, g.node, updateBoundaries)],
                          mem, i + 1, map, updateBoundaries, g)

RECURSIVE RelWayLoop(_, _, _, _, _, _)
\* addRelation's loop over re.getWays()
RelWayLoop(st, mem, i, map, updateBoundaries, g) ==
    IF st.halted \/ i > Len(mem) THEN st
    ELSE IF InList(map.wayList, getWayIndex(map, mem[i].index))
         THEN RelWayLoop([st EXCEPT !.m = addWay(st.m, getWay(map, mem[i].index),
                                                 map, TRUE, updateBoundaries)],
                         mem, i + 1, map, updateBoundaries, g)
         ELSE IF g.crash THEN [st EXCEPT !.halted = TRUE]
         ELSE RelWayLoop([st EXCEPT !.m = addWay(st.m, GarbageWay,
                                                 map, TRUE, updateBoundaries)],
                         mem, i + 1, map, updateBoundaries, g)

addRelationRet(m, re) == re.id \notin DOMAIN m.relationMap

RECURSIVE addRelationSt(_, _, _, _, _, _)
RECURSIVE RelRelLoop(_, _, _, _, _, _)
\* addRelation's loop over re.getRelations(): the recursive calls
RelRelLoop(st, mem, i, map, updateBoundaries, g) ==
    IF st.halted \/ i > Len(mem) THEN st
    ELSE IF InList(map.relationList, getRelationIndex(map, mem[i].index))
         THEN RelRelLoop(addRelationSt(st, getRelation(map, mem[i].index),
                                       map, TRUE, updateBoundaries, g),
                         mem, i + 1, map, updateBoundaries, g)
         ELSE IF g.crash THEN [st EXCEPT !.halted = TRUE]
         ELSE RelRelLoop(addRelationSt(st, GarbageRelation,
                                       map, TRUE, updateBoundaries, g),
                         mem, i + 1, map, updateBoundaries, g)

\* XMLMap::addRelation on st = [m, halted]; g is the outcome of a read outside
\* a list of map, should one happen
addRelationSt(st, re, map, addChildren, updateBoundaries, g) ==
    IF st.halted \/ re.id \in DOMAIN st.m.relationMap THEN st
    ELSE LET ins == [st EXCEPT
                       !.m.relationMap = MapPut(st.m.relationMap, re.id,
                                                Len(st.m.relationList)),
                       !.m.relationList = Append(st.m.relationList, re)]
         IN  IF addChildren
             THEN RelRelLoop(
                    RelWayLoop(
                      RelNodeLoop(ins, re.nodes, 1, map, updateBoundaries, g),
                      re.ways, 1, map, updateBoundaries, g),
                    re.relations, 1, map, updateBoundaries, g)
             ELSE ins


\* ------------------------------------------------------------ findNodes

\* Rect::fromBorders(lowerLat, upperLat, lowerLon, upperLon)
RectFromBorders(lowerLat, upperLat, lowerLon, upperLon) ==
    [lowerLat |-> lowerLat, upperLat |-> upperLat,
     lowerLon |-> lowerLon, upperLon |-> upperLon]

\* Rect::contains(Point(lat, lon)): borders included
RectContains(r, lat, lon) ==
    /\ r.lowerLat <= lat /\ lat <= r.upperLat
    /\ r.lowerLon <= lon /\ lon <= r.upperLon

NoRect == RectFromBorders(0, 0, 0, 0)

\* The predicate closures the callers of findNodes build
AcceptAll == [kind |-> "all", rect |-> NoRect, tag |-> ""]
AcceptRect(r) == [kind |-> "rect", rect |-> r, tag |-> ""]
AcceptTag(t) == [kind |-> "tag", rect |-> NoRect, tag |-> t]

\* funcNodes(nd) and funcWayNodes(wd, nd): both look at the node only
NodeAccepted(f, nd) ==
    CASE f.kind = "all" -> TRUE
      [] f.kind = "rect" -> RectContains(f.rect, nd.lat, nd.lon)
      [] f.kind = "tag" -> hasTag(nd, f.tag)

\* funcWays(wd)
WayAccepted(f, wd) ==
    CASE f.kind = "all" -> TRUE
      [] f.kind = "tag" -> hasTag(wd, f.tag)

\* funcWayNodes(wd, getNode(id)) for one reference of a way.  For an id absent
\* from the map getNode reads outside the list: a closure that ignores the
\* node accepts, one that reads it gets garbage and accepts iff id \in acc.
RefAccepted(m, f, id, acc) ==
    IF InList(m.nodeList, getNodeIndex(m, id))
    THEN NodeAccepted(f, getNode(m, id))
    ELSE f.kind = "all" \/ id \in acc

\* The filtered reference list st of one way
FilteredRefs(m, f, wd, acc) ==
    LET Keep(id) == RefAccepted(m, f, id, acc)
    IN  SelectSeq(wd.nodes, Keep)

RECURSIVE FindNodesNodeLoop(_, _, _, _)
\* findNodes' first loop, from node i on
FindNodesNodeLoop(map, m, i, funcNodes) ==
    IF i > Len(m.nodeList) THEN map
    ELSE FindNodesNodeLoop(
           IF NodeAccepted(funcNodes, m.nodeList[i])
           THEN addNode(map, m.nodeList[i], TRUE) ELSE map,
           m, i + 1, funcNodes)

RECURSIVE FindNodesWayLoop(_, _, _, _, _, _)
\* findNodes' second loop, from way i on
FindNodesWayLoop(map, m, i, funcWays, funcWayNodes, acc) ==
    IF i > Len(m.wayList) THEN map
    ELSE LET wd == m.wayList[i]
             st == FilteredRefs(m, funcWayNodes, wd, acc)
         IN  FindNodesWayLoop(
               IF WayAccepted(funcWays, wd) /\ st # <<>>
               THEN addWay(map, OSMWay(wd.id, wd.ver, st, wd.tags), m, TRUE, TRUE)
               ELSE map,
               m, i + 1, funcWays, funcWayNodes, acc)

\* XMLMap::findNodes(funcNodes, funcWays, funcWayNodes) on m; acc decides the
\* reads outside the node list
findNodes(m, funcNodes, funcWays, funcWayNodes, acc) ==
    FindNodesWayLoop(FindNodesNodeLoop(XMLMapEmpty, m, 1, funcNodes),
                     m, 1, funcWays, funcWayNodes, acc)

findSquareNodes(m, r, acc) ==
    findNodes(m, AcceptRect(r), AcceptAll, AcceptRect(r), acc)

findTagNodes(m, tag, acc) ==
    findNodes(m, AcceptTag(tag), AcceptAll, AcceptTag(tag), acc)

findTagWays(m, tag, acc) ==
    findNodes(m, AcceptAll, AcceptTag(tag), AcceptAll, acc)

\* The identifiers some way of m refers to that m has no node for
AbsentRefs(m) ==
    {id \in UNION {Range(m.wayList[i].nodes) : i \in 1..Len(m.wayList)} :
        id \notin DOMAIN m.nodeMap}

\* ---------------------------------------------------------------- Graph

\* glm::distance of two asVector() positions (lon, lat): the root of the sum
\* of squares.  The positions of the model give whole roots.
ISqrt(n) == CHOOSE r \in 0..n : r * r <= n /\ (r + 1) * (r + 1) > n

Distance(a, b) ==
    ISqrt((a.lon - b.lon) * (a.lon - b.lon) + (a.lat - b.lat) * (a.lat - b.lat))

GraphEdge(pGoalID, pWeight) == [goal |-> pGoalID, weight |-> pWeight]

\* GraphNode::GraphNode(const OSMNode&)
GraphNode(nd) == [nodeID |-> nd.id, lat |-> nd.lat, lon |-> nd.lon, connections |-> <<>>]

\* the initial value of lastID in Graph::Graph
NoLastID == -1

\* xmlmap->getNode(id) in Graph::Graph; gn is what a read outside the node
\* list yields
GraphGetNode(m, id, gn) ==
    IF InList(m.nodeList, getNodeIndex(m, id)) THEN getNode(m, id) ELSE gn

\* The two push_backs that connect lastID and currentID
Connect(g, m, lastID, currentID, gn) ==
    LET currentIndex == g.graphMap[currentID]
        lastIndex == g.graphMap[lastID]
        distance == Distance(GraphGetNode(m, lastID, gn), GraphGetNode(m, currentID, gn))
        a == [g EXCEPT !.graphBuffer[currentIndex + 1].connections =
                          Append(@, GraphEdge(lastID, distance))]
    IN  [a EXCEPT !.graphBuffer[lastIndex + 1].connections =
                          Append(@, GraphEdge(currentID, distance))]

RECURSIVE GraphWayLoop(_, _, _, _, _, _)
\* the loop over one way's references, from reference i on
GraphWayLoop(g, m, refs, i, lastID, gn) ==
    IF i > Len(refs) THEN g
    ELSE LET currentID == refs[i]
             ins == IF currentID \in DOMAIN g.graphMap THEN g
                    ELSE [graphBuffer |->
                              Append(g.graphBuffer,
                                     GraphNode(GraphGetNode(m, currentID, gn))),
                          graphMap |-> MapPut(g.graphMap, currentID, Len(g.graphBuffer))]
             con == IF lastID # NoLastID THEN Connect(ins, m, lastID, currentID, gn)
                    ELSE ins
         IN  GraphWayLoop(con, m, refs, i + 1, currentID, gn)

RECURSIVE GraphLoop(_, _, _, _)
GraphLoop(g, m, w, gn) ==
    IF w > Len(m.wayList) THEN g
    ELSE GraphLoop(GraphWayLoop(g, m, m.wayList[w].nodes, 1, NoLastID, gn),
                   m, w + 1, gn)

\* Graph::Graph(xmlmap)
Graph(m, gn) == GraphLoop([graphBuffer |-> <<>>, graphMap |-> EmptyMapT], m, 1, gn)


\* Graph::checkConsistency: the flag `check` it computes is printed; the
\* function ends in `return true`
checkConsistency(g) == TRUE

\* Mutant of RouteExists: the test the wrong way round
RouteExistsInverted(nodes) == nodes = <<>>

\* Route::exists
RouteExists(nodes) == nodes # <<>>

\* ================================================================ state

VARIABLES
    seg,      \* SegSpec: the XMLMap operated on
    src,      \* SegSpec: the map passed as `map` to addWay / addRelation;
              \*          after findNodes, the map it was called on
    halted,   \* SegSpec: the process ended in a read outside a list
    op,       \* SegSpec: the last call: its name, arguments and return value
    nops,     \* SegSpec: number of calls made
    graph,    \* RouteSpec: the Graph (graphBuffer, graphMap)
    fr,       \* RouteSpec: the frame of the running findRoute call
    doc,      \* Spec: the children of the document's osm element
    cfg,      \* Spec: the size of the thread pool passed to parseXMLMap
    task,     \* Spec: per ParseTask: position in operator(), local lists
    lock,     \* Spec: lockNodes / lockWays / lockRelations (holder or 0)
    info,     \* Spec: ParseInfo's shared lists and maps
    result    \* Spec: what parseXMLMap returned

segVars == <<seg, src, halted, op, nops>>
routeVars == <<graph, fr>>
ingestVars == <<doc, cfg, task, lock, info, result>>
vars == <<seg, src, halted, op, nops, graph, fr, doc, cfg, task, lock, info, result>>

\* The parts of the state a specification does not use
SegIdle == seg = XMLMapEmpty /\ src = XMLMapEmpty /\ halted = FALSE
           /\ op = "none" /\ nops = 0
RouteIdle == graph = "none" /\ fr = "none"
IngestIdle == doc = <<>> /\ cfg = "none" /\ task = <<>> /\ lock = "none"
              /\ info = "none" /\ result = [status |-> "none", map |-> XMLMapEmpty]

\* ============================================================== SegSpec

\* Number of calls a behaviour of SegSpec makes at most
MaxOps == 3

Highway == << <<"highway", "primary">> >>

\* The nodes, ways and relations the calls are made with.  Identifier 9 is
\* referred to and never a node; relations 1 and 2 are members of each other.
SegNodes ==
    {OSMNode(1, 1, <<>>, 0, 0), OSMNode(2, 1, Highway, 0, 3),
     OSMNode(3, 1, <<>>, 4, 3), OSMNode(1, 2, <<>>, -4, -3)}

SegWays ==
    {OSMWay(1, 1, <<1, 2>>, Highway), OSMWay(2, 1, <<2, 3, 1>>, <<>>),
     OSMWay(3, 1, <<3, 9>>, <<>>), OSMWay(1, 2, <<3>>, <<>>)}

SegRelations ==
    {OSMRelation(1, 1, <<>>, <<RelationMember(1, "stop")>>,
                 <<RelationMember(1, "")>>, <<RelationMember(2, "")>>),
     OSMRelation(2, 1, Highway, <<>>, <<>>, <<RelationMember(1, "")>>),
     OSMRelation(3, 1, <<>>, <<RelationMember(9, "")>>, <<>>, <<>>)}

RECURSIVE IndexOf(_, _, _)
\* The index map the update loops of the parser build for a list: position
\* by identifier, a later entry of the same identifier overwriting
IndexOf(list, i, m) ==
    IF i > Len(list) THEN m
    ELSE IndexOf(list, i + 1, MapPut(m, list[i].id, i - 1))

\* The maps parseXMLMap returns for documents holding these entities
IngestedMap(nodes, ways, relations) ==
    XMLMap(nodes, ways, relations, IndexOf(nodes, 1, EmptyMapT),
           IndexOf(ways, 1, EmptyMapT), IndexOf(relations, 1, EmptyMapT))

SegSources ==
    {IngestedMap(<<OSMNode(1, 1, <<>>, 0, 0), OSMNode(2, 1, Highway, 0, 3),
                   OSMNode(3, 1, <<>>, 4, 3)>>,
                 <<OSMWay(1, 1, <<1, 2>>, Highway), OSMWay(2, 1, <<2, 3, 1>>, <<>>),
                   OSMWay(3, 1, <<3, 9>>, <<>>)>>,
                 <<OSMRelation(2, 1, Highway, <<>>, <<>>, <<RelationMember(1, "")>>),
                   OSMRelation(1, 1, <<>>, <<RelationMember(1, "stop")>>,
                               <<RelationMember(1, "")>>, <<RelationMember(2, "")>>)>>),
     IngestedMap(<<OSMNode(3, 1, <<>>, -4, -3), OSMNode(2, 1, <<>>, -4, -6)>>,
                 <<OSMWay(2, 1, <<2, 3>>, <<>>)>>, <<>>)}

\* The rectangles findSquareNodes is called with
SegRects == {RectFromBorders(0, 4, 0, 3), RectFromBorders(-5, 0, -3, 0),
             RectFromBorders(50, 60, 50, 60)}

SegInit ==
    /\ src \in SegSources
    /\ seg \in {XMLMapEmpty, src}
    /\ halted = FALSE
    /\ op = [name |-> "none", id |-> 0, ret |-> TRUE, upd |-> TRUE,
             fN |-> AcceptAll, fW |-> AcceptAll, fWN |-> AcceptAll,
     tags |-> <<>>, key |-> "", val |-> "", raised |-> FALSE]
    /\ nops = 0
    /\ RouteIdle /\ IngestIdle

Call(name, id, ret, upd) ==
    [name |-> name, id |-> id, ret |-> ret, upd |-> upd,
     fN |-> AcceptAll, fW |-> AcceptAll, fWN |-> AcceptAll,
     tags |-> <<>>, key |-> "", val |-> "", raised |-> FALSE]

CanCall == ~halted /\ nops < MaxOps

AddNode ==
    /\ CanCall
    /\ \E nd \in SegNodes, updateBoundaries \in BOOLEAN :
          /\ seg' = addNode(seg, nd, updateBoundaries)
          /\ op' = Call("addNode", nd.id, addNodeRet(seg, nd), updateBoundaries)
    /\ nops' = nops + 1
    /\ UNCHANGED <<src, halted, routeVars, ingestVars>>

AddWay ==
    /\ CanCall
    /\ \E wd \in SegWays, addChildren \in BOOLEAN, updateBoundaries \in BOOLEAN :
          /\ seg' = addWay(seg, wd, src, addChildren, updateBoundaries)
          /\ op' = Call("addWay", wd.id, addWayRet(seg, wd), updateBoundaries)
    /\ nops' = nops + 1
    /\ UNCHANGED <<src, halted, routeVars, ingestVars>>

AddRelation ==
    /\ CanCall
    /\ \E re \in SegRelations, addChildren \in BOOLEAN,
          updateBoundaries \in BOOLEAN, g \in OobOutcomes :
          LET st == addRelationSt([m |-> seg, halted |-> FALSE], re, src,
                                  addChildren, updateBoundaries, g)
          IN  /\ seg' = st.m
              /\ halted' = st.halted
              /\ op' = Call("addRelation", re.id, addRelationRet(seg, re),
                            updateBoundaries)
    /\ nops' = nops + 1
    /\ UNCHANGED <<src, routeVars, ingestVars>>

RecalculateBoundaries ==
    /\ CanCall
    /\ seg' = recalculateBoundaries(seg)
    /\ op' = Call("recalculateBoundaries", 0, TRUE, TRUE)
    /\ nops' = nops + 1
    /\ UNCHANGED <<src, halted, routeVars, ingestVars>>

\* Whether findNodes on m hands a node read outside the list to a closure
\* that reads it
FindReadsOutside(m, funcWays, funcWayNodes) ==
    /\ funcWayNodes.kind # "all"
    /\ \E i \in 1..Len(m.wayList) :
          /\ WayAccepted(funcWays, m.wayList[i])
          /\ \E k \in 1..Len(m.wayList[i].nodes) :
                getNodeIndex(m, m.wayList[i].nodes[k]) = NoIndex

\* The outcomes of such reads: the process ends, or each read yields garbage
\* that the closure accepts (id \in acc) or not
FindOutcomes(m, funcWays, funcWayNodes) ==
    IF FindReadsOutside(m, funcWays, funcWayNodes)
    THEN {[crash |-> TRUE, acc |-> {}]}
         \cup {[crash |-> FALSE, acc |-> a] : a \in SUBSET AbsentRefs(m)}
    ELSE {[crash |-> FALSE, acc |-> {}]}

\* The program goes on with the map findNodes returned; src keeps the map it
\* was called on.
FindNodes ==
    /\ CanCall
    /\ \E fN \in {AcceptAll, AcceptTag("highway")},
          fW \in {AcceptAll, AcceptTag("highway")},
          fWN \in {AcceptAll, AcceptTag("highway")} :
          \E o \in FindOutcomes(seg, fW, fWN) :
             /\ halted' = o.crash
             /\ seg' = IF o.crash THEN seg ELSE findNodes(seg, fN, fW, fWN, o.acc)
             /\ src' = IF o.crash THEN src ELSE seg
             /\ op' = [name |-> IF o.crash THEN "crash" ELSE "findNodes",
                       id |-> 0, ret |-> TRUE, upd |-> TRUE,
                       fN |-> fN, fW |-> fW, fWN |-> fWN,
                       tags |-> <<>>, key |-> "", val |-> "", raised |-> FALSE]
    /\ nops' = nops + 1
    /\ UNCHANGED <<routeVars, ingestVars>>

FindSquareNodes ==
    /\ CanCall
    /\ \E r \in SegRects :
          \E o \in FindOutcomes(seg, AcceptAll, AcceptRect(r)) :
             /\ halted' = o.crash
             /\ seg' = IF o.crash THEN seg ELSE findSquareNodes(seg, r, o.acc)
             /\ src' = IF o.crash THEN src ELSE seg
             /\ op' = [name |-> IF o.crash THEN "crash" ELSE "findSquareNodes",
                       id |-> 0, ret |-> TRUE, upd |-> TRUE,
                       fN |-> AcceptRect(r), fW |-> AcceptAll, fWN |-> AcceptRect(r),
                       tags |-> <<>>, key |-> "", val |-> "", raised |-> FALSE]
    /\ nops' = nops + 1
    /\ UNCHANGED <<routeVars, ingestVars>>

\* The tag lists and keys getValue is called with
TagLists ==
    {<<>>,
     << <<"name", "">> >>,
     << <<"name", "x">>, <<"name", "y">> >>,
     << <<"highway", "primary">>, <<"name", "">>, <<"name", "x">> >>,
     << <<"ref", "r">>, <<"highway", "path">>, <<"highway", "primary">> >>}

TagKeys == {"name", "highway", "oneway"}

\* getValue on a node carrying one of the tag lists.  The function has no
\* throw statement: the call always returns, raised stays FALSE.
GetValue ==
    /\ CanCall
    /\ \E tags \in TagLists, key \in TagKeys :
          op' = [Call("getValue", 1, TRUE, TRUE) EXCEPT
                    !.tags = tags, !.key = key,
                    !.val = getValue(OSMNode(1, 1, tags, 0, 0), key),
                    !.raised = FALSE]
    /\ nops' = nops + 1
    /\ UNCHANGED <<seg, src, halted, routeVars, ingestVars>>

SegNext ==
    \/ GetValue
    \/ AddNode
    \/ AddWay
    \/ AddRelation
    \/ RecalculateBoundaries
    \/ FindNodes
    \/ FindSquareNodes

SegSpec == SegInit /\ [][SegNext]_vars

\* ------------------------------------------------------- SegSpec: claims

IndexEntriesValid(list, map) ==
    \A id \in DOMAIN map :
        /\ map[id] >= 0
        /\ map[id] < Len(list)
        /\ At(list, map[id]).id = id

IndexValid(m) ==
    /\ IndexEntriesValid(m.nodeList, m.nodeMap)
    /\ IndexEntriesValid(m.wayList, m.wayMap)
    /\ IndexEntriesValid(m.relationList, m.relationMap)

\* C3: after ingest and after any sequence of addNode / addWay / addRelation
\* calls, every index entry (id -> p) of every kind has p < size of the
\* collection and collection[p].id = id.
C3_IndexEntriesPointToEntity == IndexValid(seg) /\ IndexValid(src)

\* C3 witness: an ingested map to which a call has added a way and, through
\* addChildren, nodes.
C3_Witness ==
    /\ op.name = "addWay" /\ op.ret
    /\ Len(seg.wayList) >= 2
    /\ Len(seg.nodeList) >= 2
    /\ nops >= 2

BoundsEnclose(m) ==
    \A i \in 1..Len(m.nodeList) :
        /\ m.lowerLat <= m.nodeList[i].lat /\ m.nodeList[i].lat <= m.upperLat
        /\ m.lowerLon <= m.nodeList[i].lon /\ m.nodeList[i].lon <= m.upperLon

\* C4 as claimed: in every reachable state of a Segment, with either value of
\* updateBoundaries, every contained node lies inside the bounding rectangle.
C4_BoundsEncloseAlways == BoundsEnclose(seg)

\* C4 amended: a map built by ingest encloses its nodes; findNodes and
\* recalculateBoundaries yield a map that encloses its nodes; and a call of
\* addNode / addWay / addRelation with updateBoundaries = true on a map that
\* encloses its nodes leaves one that does.
C4_BoundsEncloseWhenUpdated ==
    /\ BoundsEnclose(seg)
    /\ [][/\ op'.name \in {"findNodes", "findSquareNodes", "recalculateBoundaries"}
             => BoundsEnclose(seg')
          /\ (op'.upd /\ BoundsEnclose(seg)) => BoundsEnclose(seg')]_vars

\* C4 witness: addNode with updateBoundaries = true has put a node outside
\* the former rectangle into an ingested map, and the rectangle has grown.
C4_Witness ==
    /\ op.name = "addNode" /\ op.ret /\ op.upd
    /\ seg.lowerLat < 0 /\ seg.upperLat >= 4
    /\ seg.wayList # <<>>

IsDuplicateCall(c, m) ==
    \/ c.name = "addNode" /\ c.id \in DOMAIN m.nodeMap
    \/ c.name = "addWay" /\ c.id \in DOMAIN m.wayMap
    \/ c.name = "addRelation" /\ c.id \in DOMAIN m.relationMap

\* C5: addNode, addWay and addRelation called with an identifier already
\* present return false and leave the three collections, the three index maps
\* and the bounding rectangle unchanged, also when addChildren is true.
C5_DuplicateInsertIsNoOp ==
    [][IsDuplicateCall(op', seg) => (seg' = seg /\ ~op'.ret)]_vars

\* C5 witness: a call with an identifier already present has returned false
\* on a map that holds nodes and ways.
C5_Witness ==
    /\ op.name \in {"addNode", "addWay", "addRelation"}
    /\ ~op.ret
    /\ seg.nodeList # <<>> /\ seg.wayList # <<>>

\* The references of way wd whose node is in m and accepted by closure f (a
\* closure that ignores the node accepts every reference)
AcceptedRefs(m, f, wd) ==
    LET Ok(id) == IF id \in DOMAIN m.nodeMap THEN NodeAccepted(f, getNode(m, id))
                  ELSE f.kind = "all"
    IN  SelectSeq(wd.nodes, Ok)

\* C9: findSquareNodes(rect) returns a Segment whose nodes are exactly the
\* source nodes inside rect; a source way with no reference inside is absent;
\* a source way with a reference inside is present with exactly its inside
\* references in their order.
C9_FindSquareNodesExact ==
    op.name = "findSquareNodes" =>
        /\ Range(seg.nodeList) =
              {n \in Range(src.nodeList) : RectContains(op.fN.rect, n.lat, n.lon)}
        /\ \A i \in 1..Len(src.wayList) :
              LET wd == src.wayList[i]
                  inside == AcceptedRefs(src, op.fWN, wd)
              IN  IF inside = <<>> THEN wd.id \notin DOMAIN seg.wayMap
                  ELSE /\ wd.id \in DOMAIN seg.wayMap
                       /\ getWay(seg, wd.id).nodes = inside

\* C9 on the sources whose ways refer to present nodes only
C9_OnClosedSources == AbsentRefs(src) = {} => C9_FindSquareNodesExact

\* C10: findNodes puts way w in the result iff wayAccept(w) and some reference
\* r of w has wayNodeAccept(w, node(r)); the copy has w's id, version and tags
\* and exactly the accepted references; other ways do not appear.
C10_FindNodesWays ==
    op.name \in {"findNodes", "findSquareNodes"} =>
        /\ \A i \in 1..Len(src.wayList) :
              LET wd == src.wayList[i]
                  st == AcceptedRefs(src, op.fWN, wd)
              IN  (wd.id \in DOMAIN seg.wayMap)
                     <=> (WayAccepted(op.fW, wd) /\ st # <<>>)
        /\ \A k \in 1..Len(seg.wayList) :
              \E i \in 1..Len(src.wayList) :
                 /\ seg.wayList[k] = [src.wayList[i] EXCEPT
                        !.nodes = AcceptedRefs(src, op.fWN, src.wayList[i])]

\* C10 on the sources whose ways refer to present nodes only
C10_OnClosedSources == AbsentRefs(src) = {} => C10_FindNodesWays

\* C11: in every Segment findNodes (findSquareNodes, findTagNodes,
\* findTagWays) returns, every node reference of every way of the result is
\* the identifier of a node of the result.
C11_ResultWaysResolve ==
    op.name \in {"findNodes", "findSquareNodes"} =>
        \A k \in 1..Len(seg.wayList) :
            \A r \in 1..Len(seg.wayList[k].nodes) :
                seg.wayList[k].nodes[r] \in DOMAIN seg.nodeMap

\* C11 on the sources whose ways refer to present nodes only
C11_OnClosedSources == AbsentRefs(src) = {} => C11_ResultWaysResolve


\* ------------------------------------------------------- claims (tags, has*)

\* C17: hasNodes, hasWays and hasRelations are true exactly when the map
\* holds at least one node, way or relation.
C17_HasMeansNonEmpty ==
    /\ hasNodes(seg) <=> Len(seg.nodeList) > 0
    /\ hasWays(seg) <=> Len(seg.wayList) > 0
    /\ hasRelations(seg) <=> Len(seg.relationList) > 0

\* The positions of the tag list whose pair has the key
KeyPositions(tags, key) == {i \in 1..Len(tags) : tags[i][1] = key}

C19_AbsentKeyRaises ==
    (op.name = "getValue" /\ KeyPositions(op.tags, op.key) = {}) => op.raised

\* ============================================================ RouteSpec

\* numeric_limits<double>::max(), the initial distance
DblMax == 1000000

\* nullptr as BufferedNode::previous
NullPrev == -1

\* The maps the graphs are built from: the line 1-2-3-4-5 with weights 1, 2,
\* 3, 4; a map where node 4 is found first over a long edge and then over a
\* shorter path, and nodes 5, 6 form a second component; a triangle with a
\* way that refers to the absent node 9; a map without ways.
RouteSources ==
    {IngestedMap(<<OSMNode(1, 1, <<>>, 0, 0), OSMNode(2, 1, <<>>, 0, 1),
                   OSMNode(3, 1, <<>>, 0, 3), OSMNode(4, 1, <<>>, 0, 6),
                   OSMNode(5, 1, <<>>, 0, 10)>>,
                 <<OSMWay(1, 1, <<1, 2, 3, 4, 5>>, <<>>)>>, <<>>),
     IngestedMap(<<OSMNode(1, 1, <<>>, 0, 0), OSMNode(2, 1, <<>>, 0, -1),
                   OSMNode(3, 1, <<>>, 0, 2), OSMNode(4, 1, <<>>, 0, 3),
                   OSMNode(5, 1, <<>>, 8, 0), OSMNode(6, 1, <<>>, 8, 6)>>,
                 <<OSMWay(1, 1, <<2, 1, 3, 4>>, <<>>), OSMWay(2, 1, <<2, 4>>, <<>>),
                   OSMWay(3, 1, <<5, 6>>, <<>>)>>, <<>>),
     IngestedMap(<<OSMNode(1, 1, <<>>, 0, 0), OSMNode(2, 1, <<>>, 0, 3),
                   OSMNode(3, 1, <<>>, 4, 3)>>,
                 <<OSMWay(1, 1, <<1, 2, 3, 1>>, <<>>), OSMWay(2, 1, <<3, 9>>, <<>>)>>,
                 <<>>),
     IngestedMap(<<OSMNode(-1, 1, <<>>, 0, 0), OSMNode(2, 1, <<>>, 0, 3),
                   OSMNode(3, 1, <<>>, 4, 3)>>,
                 <<OSMWay(1, 1, <<3, -1, 2>>, <<>>)>>, <<>>),
     IngestedMap(<<OSMNode(1, 1, <<>>, 0, 0)>>, <<>>, <<>>)}

\* The identifiers findRoute is called with; 8 is no node of any graph
RouteIds == {1, 2, 3, 4, 5, 6, 8}

Idle == [pc |-> "idle", start |-> 0, goal |-> 0, nodes |-> <<>>, queue |-> <<>>,
         heapValid |-> TRUE, cur |-> 0, i |-> 0, route |-> <<>>]

\* A graph built from one of the maps.  Graph::Graph reads the node list
\* outside its bounds when a way refers to an absent node: the constructor
\* then ends the process or goes on with what the read yields.
RouteInit ==
    /\ \E m \in RouteSources, gn \in GarbageNodes :
          /\ graph = Graph(m, gn)
          /\ fr \in (IF AbsentRefs(m) = {} THEN {Idle}
                     ELSE {Idle, [Idle EXCEPT !.pc = "nograph"]})
    /\ SegIdle /\ IngestIdle

\* findRoute up to the loop: the BufferedNode array, graphMap[start] (which
\* inserts start -> 0 when start is absent), distance 0 and the first push.
\* With an empty graphBuffer nodes[startIndex] is outside the array.
FindRouteCall ==
    /\ fr.pc = "idle"
    /\ \E start \in RouteIds, goal \in RouteIds :
          LET nodeCount == Len(graph.graphBuffer)
              map == IF start \in DOMAIN graph.graphMap THEN graph.graphMap
                     ELSE MapPut(graph.graphMap, start, 0)
              startIndex == map[start]
              nodes == [k \in 1..nodeCount |->
                          [distance |-> IF k = startIndex + 1 THEN 0 ELSE DblMax,
                           visited |-> FALSE, previous |-> NullPrev]]
          IN  /\ graph' = [graph EXCEPT !.graphMap = map]
              /\ fr' = [Idle EXCEPT !.pc = IF nodeCount = 0 THEN "ub" ELSE "loop",
                                    !.start = start, !.goal = goal,
                                    !.nodes = nodes,
                                    !.queue = IF nodeCount = 0 THEN <<>>
                                              ELSE <<startIndex>>]
    /\ UNCHANGED <<segVars, ingestVars>>

\* if (queue.empty()) return Route();
QueueEmpty ==
    /\ fr.pc = "loop"
    /\ fr.queue = <<>>
    /\ fr' = [fr EXCEPT !.pc = "done", !.route = <<>>]
    /\ UNCHANGED <<graph, segVars, ingestVars>>

RemoveAt(q, e) == [k \in 1..(Len(q) - 1) |-> IF k < e THEN q[k] ELSE q[k + 1]]

\* The entries queue.top() may yield.  The queue holds pointers and orders
\* them by the distance they point to; lowering the distance of a node that
\* has an entry in the queue breaks the heap the queue relies on (heapValid),
\* and any entry may then come out.
MayPop(f, e) ==
    f.heapValid =>
        \A k \in 1..Len(f.queue) :
            f.nodes[f.queue[e] + 1].distance <= f.nodes[f.queue[k] + 1].distance

NodeIdAt(g, p) == g.graphBuffer[p + 1].nodeID

RECURSIVE WalkBack(_, _, _, _, _)
\* The do-while of findRoute: add the node, step to previous, test its id.
\* Yields the route and whether a null previous was dereferenced; fuel bounds
\* the walk for a cyclic chain.
WalkBack(g, f, p, route, fuel) ==
    LET added == Append(route, NodeIdAt(g, p))
        prev == f.nodes[p + 1].previous
    IN  IF prev = NullPrev \/ fuel = 0 THEN [nullDeref |-> TRUE, route |-> added]
        ELSE IF NodeIdAt(g, prev) = f.start THEN [nullDeref |-> FALSE, route |-> added]
        ELSE WalkBack(g, f, prev, added, fuel - 1)

\* Pop of the goal: the back-propagation and the return.  A null previous is
\* dereferenced when the walk does not meet start; the call then ends the
\* process or returns what it has assembled.
PopGoal ==
    /\ fr.pc = "loop"
    /\ \E e \in 1..Len(fr.queue) :
          /\ MayPop(fr, e)
          /\ NodeIdAt(graph, fr.queue[e]) = fr.goal
          /\ LET w == WalkBack(graph, fr, fr.queue[e], <<>>, Len(fr.nodes))
             IN  \E end \in (IF w.nullDeref THEN {"ub", "done"} ELSE {"done"}) :
                    fr' = [fr EXCEPT !.pc = end, !.queue = RemoveAt(fr.queue, e),
                                     !.cur = fr.queue[e], !.route = w.route]
    /\ UNCHANGED <<graph, segVars, ingestVars>>

\* Mutant of PopNode: the popped node is marked as not visited
PopNodeReopens ==
    /\ fr.pc = "loop"
    /\ \E e \in 1..Len(fr.queue) :
          /\ MayPop(fr, e)
          /\ NodeIdAt(graph, fr.queue[e]) # fr.goal
          /\ fr' = [fr EXCEPT !.pc = "edges", !.queue = RemoveAt(fr.queue, e),
                              !.cur = fr.queue[e], !.i = 1,
                              !.nodes[fr.queue[e] + 1].visited = FALSE]
    /\ UNCHANGED <<graph, segVars, ingestVars>>

\* Pop of another node: its edge loop starts
PopNode ==
    /\ fr.pc = "loop"
    /\ \E e \in 1..Len(fr.queue) :
          /\ MayPop(fr, e)
          /\ NodeIdAt(graph, fr.queue[e]) # fr.goal
          /\ fr' = [fr EXCEPT !.pc = "edges", !.queue = RemoveAt(fr.queue, e),
                              !.cur = fr.queue[e], !.i = 1]
    /\ UNCHANGED <<graph, segVars, ingestVars>>

\* Mutant of Relax: visited neighbours are not skipped and the back-pointer
\* is set on every turn
RelaxUnconditional(g, f) ==
    LET edge == g.graphBuffer[f.cur + 1].connections[f.i]
        nodeIndex == g.graphMap[edge.goal]
        nextNode == f.nodes[nodeIndex + 1]
        newDistance == f.nodes[f.cur + 1].distance + edge.weight
        lower == newDistance < nextNode.distance
        queued == \E k \in 1..Len(f.queue) : f.queue[k] = nodeIndex
    IN  [f EXCEPT !.i = f.i + 1,
                  !.nodes[nodeIndex + 1].distance = IF lower THEN newDistance ELSE @,
                  !.nodes[nodeIndex + 1].previous = f.cur,
                  !.heapValid = f.heapValid /\ ~(lower /\ queued),
                  !.queue = IF nextNode.visited THEN f.queue
                            ELSE Append(f.queue, nodeIndex)]

\* One turn of the edge loop on frame f
Relax(g, f) ==
    LET edge == g.graphBuffer[f.cur + 1].connections[f.i]
        nodeIndex == g.graphMap[edge.goal]
        nextNode == f.nodes[nodeIndex + 1]
        newDistance == f.nodes[f.cur + 1].distance + edge.weight
        lower == newDistance < nextNode.distance
        queued == \E k \in 1..Len(f.queue) : f.queue[k] = nodeIndex
    IN  IF nextNode.visited THEN [f EXCEPT !.i = f.i + 1]
        ELSE [f EXCEPT !.i = f.i + 1,
                       !.nodes[nodeIndex + 1].distance =
                           IF lower THEN newDistance ELSE @,
                       !.nodes[nodeIndex + 1].previous =
                           IF lower THEN f.cur ELSE @,
                       !.heapValid = f.heapValid /\ ~(lower /\ queued),
                       !.queue = Append(f.queue, nodeIndex)]

Edge ==
    /\ fr.pc = "edges"
    /\ fr.i <= Len(graph.graphBuffer[fr.cur + 1].connections)
    /\ fr' = Relax(graph, fr)
    /\ UNCHANGED <<graph, segVars, ingestVars>>

\* currentNode->visited = true; and the next turn of while (true)
EdgesDone ==
    /\ fr.pc = "edges"
    /\ fr.i > Len(graph.graphBuffer[fr.cur + 1].connections)
    /\ fr' = [fr EXCEPT !.pc = "loop", !.nodes[fr.cur + 1].visited = TRUE]
    /\ UNCHANGED <<graph, segVars, ingestVars>>

RouteNext ==
    \/ FindRouteCall
    \/ QueueEmpty
    \/ PopGoal
    \/ PopNode
    \/ Edge
    \/ EdgesDone

RouteSpec == RouteInit /\ [][RouteNext]_vars

\* findRoute runs in one thread, which goes on as long as it has a next step
RouteFair == RouteSpec /\ WF_vars(RouteNext)

\* ------------------------------------------------------ claims on findRoute

\* id is a node of the graph: the index holds it and leads to its node
IsGraphNode(g, id) ==
    /\ id \in DOMAIN g.graphMap
    /\ g.graphMap[id] < Len(g.graphBuffer)
    /\ NodeIdAt(g, g.graphMap[id]) = id

Neighbours(g, p) ==
    {g.graphMap[g.graphBuffer[p + 1].connections[k].goal] :
        k \in 1..Len(g.graphBuffer[p + 1].connections)}

RECURSIVE ReachFrom(_, _, _)
ReachFrom(g, set, fuel) ==
    LET next == set \cup UNION {Neighbours(g, p) : p \in set}
    IN  IF fuel = 0 \/ next = set THEN set ELSE ReachFrom(g, next, fuel - 1)

\* The positions of the graph buffer that edges lead to from position p
Reach(g, p) == ReachFrom(g, {p}, Len(g.graphBuffer))

Reachable(g, start, goal) ==
    \E p \in Reach(g, g.graphMap[start]) : NodeIdAt(g, p) = goal

\* The weights of the edges from position p to position q
EdgeWeights(g, p, q) ==
    {g.graphBuffer[p + 1].connections[k].weight :
        k \in {j \in 1..Len(g.graphBuffer[p + 1].connections) :
                 g.graphMap[g.graphBuffer[p + 1].connections[j].goal] = q}}

SetMin(S) == CHOOSE x \in S : \A y \in S : x <= y

RECURSIVE BellmanFord(_, _, _)
BellmanFord(g, d, fuel) ==
    LET relaxed == [q \in DOMAIN d |->
                      SetMin({d[q]} \cup
                             UNION {{d[p] + w : w \in EdgeWeights(g, p - 1, q - 1)} :
                                      p \in {r \in DOMAIN d : d[r] < DblMax}})]
    IN  IF fuel = 0 \/ relaxed = d THEN d ELSE BellmanFord(g, relaxed, fuel - 1)

\* The least total weight of a path from position p to position q
ShortestDistance(g, p, q) ==
    BellmanFord(g, [k \in 1..Len(g.graphBuffer) |-> IF k = p + 1 THEN 0 ELSE DblMax],
                Len(g.graphBuffer))[q + 1]

RECURSIVE RouteWeight(_, _, _)
\* The sum of the lightest edges between consecutive route nodes from k on;
\* DblMax when two consecutive nodes are not joined by an edge
RouteWeight(g, route, k) ==
    IF k >= Len(route) THEN 0
    ELSE LET ws == IF route[k] \in DOMAIN g.graphMap /\ route[k + 1] \in DOMAIN g.graphMap
                   THEN EdgeWeights(g, g.graphMap[route[k]], g.graphMap[route[k + 1]])
                   ELSE {}
         IN  IF ws = {} THEN DblMax ELSE SetMin(ws) + RouteWeight(g, route, k + 1)

IsShortestPath(g, route, start, goal) ==
    /\ Len(route) >= 2
    /\ route[1] = start
    /\ route[Len(route)] = goal
    /\ RouteWeight(g, route, 1) = ShortestDistance(g, g.graphMap[start], g.graphMap[goal])

Returned == fr.pc \in {"done", "ub"}

\* C6: for distinct start and goal that are graph nodes with goal reachable
\* from start, the call returns, and the route lists a minimum-weight path
\* from start to goal, both included, in path order, the weights between
\* consecutive route nodes adding up to the shortest distance.
C6_RouteIsShortestPath ==
    (/\ Returned
     /\ fr.start # fr.goal
     /\ IsGraphNode(graph, fr.start) /\ IsGraphNode(graph, fr.goal)
     /\ Reachable(graph, fr.start, fr.goal))
        => (fr.pc = "done" /\ IsShortestPath(graph, fr.route, fr.start, fr.goal))

\* C7: findRoute(x, x) for a graph node x returns a route that exists and
\* whose node sequence is exactly [x].
C7_SameNodeRoute ==
    (Returned /\ fr.start = fr.goal /\ IsGraphNode(graph, fr.start))
        => (fr.pc = "done" /\ fr.route = <<fr.start>> /\ RouteExists(fr.route))

\* C8: when start is a graph node and goal is not reachable from it (another
\* component, or no graph node), the call drains the queue and returns an
\* empty route, for which exists() is false; and exists() of any returned
\* route is true exactly when its node sequence is non-empty.
C8_UnreachableGoalEmptyRoute ==
    /\ (/\ Returned
        /\ IsGraphNode(graph, fr.start)
        /\ ~Reachable(graph, fr.start, fr.goal))
          => (/\ fr.pc = "done"
              /\ fr.queue = <<>>
              /\ fr.route = <<>>
              /\ ~RouteExists(fr.route))
    /\ fr.pc = "done" => (RouteExists(fr.route) <=> Len(fr.route) > 0)

\* Witness of C8: a call across two components has returned, after it visited
\* the whole component of start
C8_Witness ==
    /\ fr.pc = "done"
    /\ IsGraphNode(graph, fr.start) /\ IsGraphNode(graph, fr.goal)
    /\ fr.start # fr.goal
    /\ ~Reachable(graph, fr.start, fr.goal)
    /\ fr.route = <<>>
    /\ \A p \in Reach(graph, graph.graphMap[fr.start]) : fr.nodes[p + 1].visited
    /\ Cardinality(Reach(graph, graph.graphMap[fr.start])) >= 4

\* ================================================================= Spec
\* parseXMLMap: the document, the ParseTasks on the pool, the shared lists.

\* int threads = 8; the number of ParseTasks, whatever the size of the pool
threads == 8

\* The sizes of the pool parseXMLMap is called with
WorkerCounts == {1, 2, 8}

\* What may be wrong with the text of a numeric attribute: the attribute is
\* missing, its text starts with no number ("text"), its number is outside
\* the range of the type ("range"), or a number is followed by other
\* characters ("prefix")
Defects == {"missing", "text", "range", "prefix"}

\* first_attribute(...) != nullptr
AttributePresent(defect) == defect # "missing"

\* parse<T> / parseDouble return a value: stoll and stod convert the leading
\* number of the text and ignore what follows it; they throw on a text
\* without one and on a number out of range, and parse<T> throws on a value
\* outside T
Converts(defect) == defect \notin {"text", "range"}

\* Mutant of AttributesOk: only missing attributes make an element fail
AttributesOkIfPresent(bad) == \A d \in bad : AttributePresent(d[2])

\* The tests of parseNode / parseWay / parseRelation before an entity is
\* built; bad holds <<attribute, defect>> for every attribute that has one
AttributesOk(bad) == \A d \in bad : AttributePresent(d[2]) /\ Converts(d[2])

\* A tag child with its k and v attributes, each present or not
XmlTag(k, v, hasK, hasV) == [k |-> k, v |-> v, hasK |-> hasK, hasV |-> hasV]

\* An nd child of a way: the value its ref converts to, and what is wrong
\* with the ref attribute ("none" for a ref that is a number)
XmlNd(ref, defect) == [ref |-> ref, defect |-> defect]

\* The nd children of a way whose refs are all numbers
Nds(refs) == [i \in 1..Len(refs) |-> XmlNd(refs[i], "none")]

\* A member child of a relation: its type, ref and role attributes, and in
\* bad <<attribute, defect>> for every attribute that has one
XmlMember(type, ref, role, bad) == [type |-> type, ref |-> ref, role |-> role, bad |-> bad]

\* The children of the osm element.  The numeric fields hold what the
\* conversion of the attribute yields where it yields a value.
XmlNode(id, ver, lat, lon, bad, tags) ==
    [name |-> "node", ok |-> AttributesOk(bad), bad |-> bad, id |-> id, ver |-> ver,
     lat |-> lat, lon |-> lon, refs |-> <<>>, members |-> <<>>, tags |-> tags]
XmlWay(id, ver, refs, bad, tags) ==
    [name |-> "way", ok |-> AttributesOk(bad), bad |-> bad, id |-> id, ver |-> ver,
     lat |-> 0, lon |-> 0, refs |-> refs, members |-> <<>>, tags |-> tags]
XmlRelation(id, ver, members, bad, tags) ==
    [name |-> "relation", ok |-> AttributesOk(bad), bad |-> bad, id |-> id,
     ver |-> ver, lat |-> 0, lon |-> 0, refs |-> <<>>, members |-> members,
     tags |-> tags]
XmlOther(name) ==
    [name |-> name, ok |-> TRUE, bad |-> {}, id |-> 0, ver |-> 0, lat |-> 0, lon |-> 0,
     refs |-> <<>>, members |-> <<>>, tags |-> <<>>]

Document(readable, wellFormed, osm, children) ==
    [readable |-> readable, wellFormed |-> wellFormed, osm |-> osm,
     children |-> children]

\* Documents: one longer than the number of tasks, with a node whose lat does
\* not convert, an unknown element, a way without id, a node id that occurs
\* twice, a lon with trailing characters, a way with nd children without a
\* ref and with refs that are no numbers, and a relation with members of
\* every type, of an unknown type, and without type, ref or role; a short one
\* with a node without version, a tag without value and a way none of whose
\* nd children has a ref that converts; and documents parseXMLMap rejects
\* (unreadable, not XML, no osm, no meta).
Docs ==
    {Document(TRUE, TRUE, TRUE,
              <<XmlOther("meta"),
                XmlNode(1, 1, 10, 20, {}, <<XmlTag("name", "", TRUE, TRUE)>>),
                XmlWay(1, 1,
                       <<XmlNd(1, "none"), XmlNd(0, "missing"), XmlNd(2, "prefix"),
                         XmlNd(7, "text"), XmlNd(3, "none"), XmlNd(8, "range")>>,
                       {}, <<XmlTag("highway", "primary", TRUE, TRUE)>>),
                XmlNode(2, 1, -5, 7, {<<"lat", "text">>}, <<XmlTag("a", "b", TRUE, FALSE)>>),
                XmlOther("bounds"),
                XmlNode(2, 2, 30, -40, {}, <<>>),
                XmlRelation(1, 1,
                            <<XmlMember("way", 1, "outer", {}),
                              XmlMember("area", 5, "inner", {}),
                              XmlMember("node", 1, "stop", {}),
                              XmlMember("node", 2, "", {<<"role", "missing">>}),
                              XmlMember("relation", 2, "sub", {}),
                              XmlMember("way", 6, "inner", {<<"ref", "text">>}),
                              XmlMember("", 3, "stop", {<<"type", "missing">>}),
                              XmlMember("relation", 0, "sub", {<<"ref", "missing">>}),
                              XmlMember("node", 3, "", {})>>,
                            {}, <<XmlTag("type", "route", TRUE, TRUE)>>),
                XmlWay(2, 1, Nds(<<2, 9>>), {<<"id", "missing">>}, <<>>),
                XmlNode(3, 1, -30, 60, {<<"lon", "prefix">>}, <<>>),
                XmlNode(1, 2, 11, 21, {}, <<>>)>>),
     Document(TRUE, TRUE, TRUE,
              <<XmlNode(1, 1, 10, 20, {},
                        <<XmlTag("name", "x", TRUE, TRUE), XmlTag("", "y", FALSE, TRUE),
                          XmlTag("highway", "path", TRUE, TRUE)>>),
                XmlOther("meta"),
                XmlWay(1, 1, Nds(<<1>>), {}, <<XmlTag("k", "", TRUE, FALSE)>>),
                XmlRelation(2, 1, <<XmlMember("node", 1, "stop", {})>>,
                            {<<"version", "range">>}, <<>>),
                XmlNode(4, 1, 0, 0, {<<"version", "missing">>}, <<>>),
                XmlWay(3, 1, <<XmlNd(0, "missing"), XmlNd(4, "text")>>, {},
                       <<XmlTag("highway", "path", TRUE, TRUE)>>)>>),
     Document(FALSE, TRUE, TRUE, <<>>),
     Document(TRUE, FALSE, TRUE, <<>>),
     Document(TRUE, TRUE, FALSE, <<>>),
     Document(TRUE, TRUE, TRUE, <<XmlNode(1, 1, 10, 20, {}, <<>>)>>)}

\* parseTag on a tag child with both attributes: the pair it pushes
parseTag(tag) == <<tag.k, tag.v>>

\* parseTag dereferences kAtt and vAtt before any test: for a tag child
\* without k or without v this is a null pointer dereference
TagIsNullDeref(tag) == ~tag.hasK \/ ~tag.hasV

RECURSIVE ParseTags(_, _)
\* The tag list the loop over the children builds, from child i on, when
\* every null dereference comes out as the skip the code intends
ParseTags(tags, i) ==
    IF i > Len(tags) THEN <<>>
    ELSE (IF TagIsNullDeref(tags[i]) THEN <<>> ELSE <<parseTag(tags[i])>>)
            \o ParseTags(tags, i + 1)

\* Mutant of RefOk: an nd child is kept whenever it has a ref attribute
RefOkIfPresent(nd) == AttributePresent(nd.defect)

\* The tests of parseWay on an nd child: refAtt is not null, and
\* parse<int64_t> of its value throws nothing
RefOk(nd) == AttributePresent(nd.defect) /\ Converts(nd.defect)

RECURSIVE ParseRefs(_, _)
\* wayInfo after the loop of parseWay over the nd children from child i on:
\* a child that fails a test is passed over with continue
ParseRefs(nds, i) ==
    IF i > Len(nds) THEN <<>>
    ELSE (IF RefOk(nds[i]) THEN <<nds[i].ref>> ELSE <<>>) \o ParseRefs(nds, i + 1)

\* Mutant of MemberOk: the role attribute is not tested
MemberOkWithoutRole(m) ==
    AttributesOk({d \in m.bad : d[1] # "role"})

\* The tests of parseRelation on a member child: typeAtt, indexAtt and
\* roleAtt are not null, and parse<int64_t> of the ref throws nothing
MemberOk(m) == AttributesOk(m.bad)

RECURSIVE ParseMembers(_, _, _)
\* nodeRel / wayRel / relationRel (type "node" / "way" / "relation") after the
\* loop of parseRelation over the member children from child i on: a member
\* that passes the tests is pushed to the list its type names, and to none
\* when its type is another text
ParseMembers(members, i, type) ==
    IF i > Len(members) THEN <<>>
    ELSE (IF MemberOk(members[i]) /\ members[i].type = type
          THEN <<RelationMember(members[i].ref, members[i].role)>> ELSE <<>>)
            \o ParseMembers(members, i + 1, type)

\* The entities the parse functions build from an element
parseNode(el) == OSMNode(el.id, el.ver, ParseTags(el.tags, 1), el.lat, el.lon)
parseWay(el) == OSMWay(el.id, el.ver, ParseRefs(el.refs, 1), ParseTags(el.tags, 1))
parseRelation(el) ==
    OSMRelation(el.id, el.ver, ParseTags(el.tags, 1),
                ParseMembers(el.members, 1, "node"), ParseMembers(el.members, 1, "way"),
                ParseMembers(el.members, 1, "relation"))

ParseInfo ==
    [nodeList |-> <<>>, wayList |-> <<>>, relationList |-> <<>>,
     nodeMap |-> EmptyMapT, wayMap |-> EmptyMapT, relationMap |-> EmptyMapT]

Unlocked == [nodes |-> 0, ways |-> 0, relations |-> 0]

\* Mutant of CanLock: a held lock is handed out again
CanLockAlways(l, kind) == TRUE

\* AtomicLock::try_lock succeeds, and AtomicLock::lock returns, when no task
\* holds the lock
CanLock(l, kind) == l[kind] = 0

LocalParseInfo(start) == [start |-> start, stride |-> threads, merge |-> FALSE]

\* ParseTask(infoPtr, local) as pushed to the pool
ParseTask(start) ==
    [pc |-> "queued", local |-> LocalParseInfo(start), pos |-> 0, kind |-> 0, i |-> 0,
     handled |-> {}, opp |-> FALSE,
     localNodeList |-> <<>>, localWayList |-> <<>>, localRelationList |-> <<>>]

\* The three forced merges, in the order operator() makes them
Kinds == <<"nodes", "ways", "relations">>

LocalList(t, kind) ==
    CASE kind = "nodes" -> t.localNodeList
      [] kind = "ways" -> t.localWayList
      [] kind = "relations" -> t.localRelationList

ClearLocal(t, kind) ==
    CASE kind = "nodes" -> [t EXCEPT !.localNodeList = <<>>]
      [] kind = "ways" -> [t EXCEPT !.localWayList = <<>>]
      [] kind = "relations" -> [t EXCEPT !.localRelationList = <<>>]

\* Mutant of UpdateOne: the index is read after the push_back
UpdateOneIndexAfterPush(inf, kind, e) ==
    CASE kind = "nodes" ->
            [inf EXCEPT !.nodeMap = MapPut(@, e.id, Len(inf.nodeList) + 1),
                        !.nodeList = Append(@, e)]
      [] kind = "ways" ->
            [inf EXCEPT !.wayMap = MapPut(@, e.id, Len(inf.wayList) + 1),
                        !.wayList = Append(@, e)]
      [] kind = "relations" ->
            [inf EXCEPT !.relationMap = MapPut(@, e.id, Len(inf.relationList) + 1),
                        !.relationList = Append(@, e)]

\* One turn of the loop of updateNodes / updateWays / updateRelations
UpdateOne(inf, kind, e) ==
    CASE kind = "nodes" ->
            [inf EXCEPT !.nodeMap = MapPut(@, e.id, Len(inf.nodeList)),
                        !.nodeList = Append(@, e)]
      [] kind = "ways" ->
            [inf EXCEPT !.wayMap = MapPut(@, e.id, Len(inf.wayList)),
                        !.wayList = Append(@, e)]
      [] kind = "relations" ->
            [inf EXCEPT !.relationMap = MapPut(@, e.id, Len(inf.relationList)),
                        !.relationList = Append(@, e)]

RECURSIVE UpdateFrom(_, _, _, _)
\* updateNodes / updateWays / updateRelations from local entry i on
UpdateFrom(inf, kind, list, i) ==
    IF i > Len(list) THEN inf
    ELSE UpdateFrom(UpdateOne(inf, kind, list[i]), kind, list, i + 1)

\* LocalParseInfo::mergeSize
mergeSize == 8 * 1024

\* Sizes of vectors are counted in blocks: one entity of a list of the model
\* stands for mergeSize entries of the vector of the program
Blocks(n) == n \div mergeSize

\* Mutant of tryMerge: the lock is not tried
tryMergeNoLock(t, l, kind) ==
    t.local.merge /\ Len(LocalList(t, kind)) >= Blocks(1024 * 16)

\* tryMerge after an element was parsed, called when local.merge is set:
\* whether it calls function(), that is, the local list has 16K entries and
\* try_lock got the lock
tryMerge(t, l, kind) ==
    t.local.merge /\ Len(LocalList(t, kind)) >= Blocks(1024 * 16) /\ CanLock(l, kind)

\* parseXMLMap has not returned
NoResult == [status |-> "none", map |-> XMLMapEmpty]

Init ==
    /\ doc \in Docs
    /\ cfg \in [workers : WorkerCounts]
    /\ task = <<>>
    /\ lock = Unlocked
    /\ info = ParseInfo
    /\ result = NoResult
    /\ SegIdle /\ RouteIdle

\* Mutant of Fatal: the meta child is not looked for
FatalWithoutMetaTest(d) == ~d.readable \/ ~d.wellFormed \/ ~d.osm

\* The conditions under which parseXMLMap throws before any task is pushed
Fatal(d) ==
    \/ ~d.readable
    \/ ~d.wellFormed
    \/ ~d.osm
    \/ \A p \in 1..Len(d.children) : d.children[p].name # "meta"

\* parseXMLMap up to the loop that pushes the tasks
ParseXMLMap ==
    /\ task = <<>> /\ result = NoResult
    /\ IF Fatal(doc)
       THEN result' = [NoResult EXCEPT !.status = "error"] /\ task' = task
       ELSE result' = result /\ task' = [k \in 1..threads |-> ParseTask(k - 1)]
    /\ UNCHANGED <<doc, cfg, lock, info, segVars, routeVars>>

Running(t) == t.pc \notin {"queued", "done"}

\* Mutant of SkipTo: no sibling is skipped
SkipNone(start, n) == 0

\* The position singleNode has after the first loop of operator(): start
\* siblings on, or behind the last child when there are fewer
SkipTo(start, n) == IF start < n THEN start ELSE n

\* A thread of the pool takes the oldest task and runs operator() up to its
\* loop: singleNode is moved local.start siblings on
StartTask(k) ==
    /\ task[k].pc = "queued"
    /\ \A j \in 1..(k - 1) : task[j].pc # "queued"
    /\ Cardinality({j \in 1..Len(task) : Running(task[j])}) < cfg.workers
    /\ task' = [task EXCEPT ![k].pc = "loop", ![k].pos = SkipTo(task[k].local.start, Len(doc.children))]
    /\ UNCHANGED <<doc, cfg, lock, info, result, segVars, routeVars>>

\* Mutant of NextElement: the loop index is not reset after an element
NextElementNoReset(pos, stride) == pos + stride + 1

\* The sibling the loop of operator() handles after the one at pos
NextElement(pos, stride) == pos + stride

\* The element under singleNode is parsed into the local list of its kind
ParseLocal(t, el) ==
    IF ~el.ok THEN t
    ELSE CASE el.name = "node" ->
                 [t EXCEPT !.localNodeList = Append(@, parseNode(el))]
           [] el.name = "way" ->
                 [t EXCEPT !.localWayList = Append(@, parseWay(el))]
           [] el.name = "relation" ->
                 [t EXCEPT !.localRelationList = Append(@, parseRelation(el))]
           [] OTHER -> t

KindOf(el) ==
    CASE el.name = "node" -> "nodes"
      [] el.name = "way" -> "ways"
      [] el.name = "relation" -> "relations"
      [] OTHER -> "none"

\* The number of a kind in Kinds
KindNumber(kind) == CHOOSE n \in 1..Len(Kinds) : Kinds[n] = kind

\* What handling element el may come to: "parsed", and for an element whose
\* tags parseTag is called on and that has a tag child without k or v, the
\* outcomes of the null pointer dereference: the process ends ("crash"), or
\* the tag is skipped as the tests in parseTag intend ("parsed")
ElementOutcomes(el) ==
    IF /\ el.name \in {"node", "way", "relation"}
       /\ el.ok
       /\ \E i \in 1..Len(el.tags) : TagIsNullDeref(el.tags[i])
    THEN {"crash", "parsed"}
    ELSE {"parsed"}

\* The process has ended inside a task: no thread runs on, parseXMLMap
\* does not return
Crashed == [status |-> "crash", map |-> XMLMapEmpty]

\* One handled element of the loop of operator(): the element is parsed and,
\* for a node, way or relation, tryMerge is called when local.merge is set;
\* with the lock got, the task goes on in the update function
ParseElement(k) ==
    /\ task[k].pc = "loop"
    /\ task[k].pos < Len(doc.children)
    /\ LET el == doc.children[task[k].pos + 1]
           parsed == [ParseLocal(task[k], el) EXCEPT
                         !.pos = NextElement(task[k].pos, task[k].local.stride),
                         !.handled = @ \cup {task[k].pos}]
       IN  \E o \in ElementOutcomes(el) :
              IF o = "crash"
              THEN /\ task' = [j \in 1..Len(task) |-> [task[j] EXCEPT !.pc = "crashed"]]
                   /\ lock' = lock
                   /\ result' = Crashed
              ELSE IF KindOf(el) # "none" /\ tryMerge(parsed, lock, KindOf(el))
              THEN /\ task' = [task EXCEPT ![k] =
                                  [parsed EXCEPT !.pc = "update", !.i = 1, !.opp = TRUE,
                                                 !.kind = KindNumber(KindOf(el))]]
                   /\ lock' = [lock EXCEPT ![KindOf(el)] = k]
                   /\ result' = result
              ELSE /\ task' = [task EXCEPT ![k] = parsed]
                   /\ lock' = lock
                   /\ result' = result
    /\ UNCHANGED <<doc, cfg, info, segVars, routeVars>>

\* Mutant of MustMerge: a single remaining entity is not merged
MustMergeMoreThanOne(list) == Len(list) > 1

\* if (!localNodeList.empty()) of the forced merges
MustMerge(list) == list # <<>>

\* The next forced merge, from kind number n on, that has a list to merge
NextForce(t, n) ==
    LET todo == {m \in n..Len(Kinds) : MustMerge(LocalList(t, Kinds[m]))}
    IN  IF todo = {} THEN [t EXCEPT !.pc = "done", !.kind = 0]
        ELSE [t EXCEPT !.pc = "force",
                       !.kind = CHOOSE m \in todo : \A o \in todo : m <= o]

\* The loop of operator() ends; the forced merges of empty lists do nothing
LoopEnd(k) ==
    /\ task[k].pc = "loop"
    /\ task[k].pos >= Len(doc.children)
    /\ task' = [task EXCEPT ![k] = NextForce(task[k], 1)]
    /\ UNCHANGED <<doc, cfg, lock, info, result, segVars, routeVars>>

\* scoped_lock lock(info->lockNodes): blocks until the lock is free
ForceMergeLock(k) ==
    /\ task[k].pc = "force"
    /\ CanLock(lock, Kinds[task[k].kind])
    /\ lock' = [lock EXCEPT ![Kinds[task[k].kind]] = k]
    /\ task' = [task EXCEPT ![k].pc = "update", ![k].i = 1, ![k].opp = FALSE]
    /\ UNCHANGED <<doc, cfg, info, result, segVars, routeVars>>

\* One turn of the loop of updateNodes / updateWays / updateRelations
Update(k) ==
    /\ task[k].pc = "update"
    /\ task[k].i <= Len(LocalList(task[k], Kinds[task[k].kind]))
    /\ info' = UpdateOne(info, Kinds[task[k].kind],
                         LocalList(task[k], Kinds[task[k].kind])[task[k].i])
    /\ task' = [task EXCEPT ![k].i = @ + 1]
    /\ UNCHANGED <<doc, cfg, lock, result, segVars, routeVars>>

\* Mutant of ForceMergeUnlock: the lock is kept over the next forced merge
ForceMergeKeepLock(k) ==
    /\ task[k].pc = "update" /\ ~task[k].opp
    /\ task[k].i > Len(LocalList(task[k], Kinds[task[k].kind]))
    /\ lock' = lock
    /\ task' = [task EXCEPT ![k] = NextForce(ClearLocal(task[k], Kinds[task[k].kind]),
                                             task[k].kind + 1)]
    /\ UNCHANGED <<doc, cfg, info, result, segVars, routeVars>>

\* localNodeList.clear(), the end of the scoped_lock, the next forced merge
ForceMergeUnlock(k) ==
    /\ task[k].pc = "update" /\ ~task[k].opp
    /\ task[k].i > Len(LocalList(task[k], Kinds[task[k].kind]))
    /\ lock' = [lock EXCEPT ![Kinds[task[k].kind]] = 0]
    /\ task' = [task EXCEPT ![k] = NextForce(ClearLocal(task[k], Kinds[task[k].kind]),
                                             task[k].kind + 1)]
    /\ UNCHANGED <<doc, cfg, info, result, segVars, routeVars>>

\* localNodeList.clear() at the end of the update function called by
\* tryMerge, lock.unlock(), and back to the loop of operator()
TryMergeUnlock(k) ==
    /\ task[k].pc = "update" /\ task[k].opp
    /\ task[k].i > Len(LocalList(task[k], Kinds[task[k].kind]))
    /\ lock' = [lock EXCEPT ![Kinds[task[k].kind]] = 0]
    /\ task' = [task EXCEPT ![k] = [ClearLocal(task[k], Kinds[task[k].kind]) EXCEPT
                                       !.pc = "loop", !.kind = 0]]
    /\ UNCHANGED <<doc, cfg, info, result, segVars, routeVars>>

\* Mutant of Join: only the first future is waited for
JoinFirstFutureOnly ==
    /\ task # <<>> /\ result = NoResult
    /\ task[1].pc = "done"
    /\ result' = [status |-> "ok",
                   map |-> XMLMap(info.nodeList, info.wayList, info.relationList,
                                  info.nodeMap, info.wayMap, info.relationMap)]
    /\ UNCHANGED <<doc, cfg, task, lock, info, segVars, routeVars>>

\* futures[i].get() for every task, then the XMLMap of the shared lists
Join ==
    /\ task # <<>> /\ result = NoResult
    /\ \A k \in 1..Len(task) : task[k].pc = "done"
    /\ result' = [status |-> "ok",
                   map |-> XMLMap(info.nodeList, info.wayList, info.relationList,
                                  info.nodeMap, info.wayMap, info.relationMap)]
    /\ UNCHANGED <<doc, cfg, task, lock, info, segVars, routeVars>>

Next ==
    \/ ParseXMLMap
    \/ \E k \in 1..Len(task) : StartTask(k)
    \/ \E k \in 1..Len(task) : ParseElement(k)
    \/ \E k \in 1..Len(task) : LoopEnd(k)
    \/ \E k \in 1..Len(task) : ForceMergeLock(k)
    \/ \E k \in 1..Len(task) : Update(k)
    \/ \E k \in 1..Len(task) : ForceMergeUnlock(k)
    \/ Join

Spec == Init /\ [][Next]_vars

\* --------------------------------------------------------------- MergeSpec
\* ParseTask::operator() run with local.merge set, the default of
\* LocalParseInfo, which parseXMLMap overrides

\* ParseTask(infoPtr, local) with LocalParseInfo's default of merge
MergeTask(start) == [ParseTask(start) EXCEPT !.local.merge = TRUE]

MergeWorkerCounts == {2, 8}

MergeInit ==
    /\ doc \in {d \in Docs : ~Fatal(d)}
    /\ cfg \in [workers : MergeWorkerCounts]
    /\ task = [k \in 1..threads |-> MergeTask(k - 1)]
    /\ lock = Unlocked
    /\ info = ParseInfo
    /\ result = NoResult
    /\ SegIdle /\ RouteIdle

MergeNext ==
    \/ \E k \in 1..Len(task) : StartTask(k)
    \/ \E k \in 1..Len(task) : ParseElement(k)
    \/ \E k \in 1..Len(task) : LoopEnd(k)
    \/ \E k \in 1..Len(task) : ForceMergeLock(k)
    \/ \E k \in 1..Len(task) : Update(k)
    \/ \E k \in 1..Len(task) : ForceMergeUnlock(k)
    \/ \E k \in 1..Len(task) : TryMergeUnlock(k)
    \/ Join

MergeSpec == MergeInit /\ [][MergeNext]_vars

\* ------------------------------------------------------- claims on ingest

RECURSIVE ParsedFrom(_, _, _)
\* The entities of one kind a single pass over the document yields, in
\* document order, from child p on
ParsedFrom(d, name, p) ==
    IF p > Len(d.children) THEN <<>>
    ELSE LET el == d.children[p]
             e == CASE name = "node" -> parseNode(el)
                    [] name = "way" -> parseWay(el)
                    [] name = "relation" -> parseRelation(el)
         IN  (IF el.name = name /\ el.ok THEN <<e>> ELSE <<>>)
                 \o ParsedFrom(d, name, p + 1)

Parsed(d, name) == ParsedFrom(d, name, 1)

Count(list, e) == Cardinality({p \in 1..Len(list) : list[p] = e})

\* The two lists hold the same entities the same number of times
SameEntities(a, b) ==
    /\ Len(a) = Len(b)
    /\ \A e \in Range(a) \cup Range(b) : Count(a, e) = Count(b, e)

IdsOf(list) == {list[p].id : p \in 1..Len(list)}

Updating(kind) ==
    {k \in 1..Len(task) : task[k].pc = "update" /\ Kinds[task[k].kind] = kind}

\* C1: when parseXMLMap returns, each shared list holds every entity a task
\* parsed, each exactly once, for every interleaving of the tasks; and no two
\* tasks are ever inside the update of the same list.
C1_NoEntityLostOrDuplicated ==
    /\ \A kind \in Range(Kinds) :
          /\ Cardinality(Updating(kind)) <= 1
          /\ \A k \in Updating(kind) : lock[kind] = k
    /\ result.status = "ok" =>
          /\ SameEntities(result.map.nodeList, Parsed(doc, "node"))
          /\ SameEntities(result.map.wayList, Parsed(doc, "way"))
          /\ SameEntities(result.map.relationList, Parsed(doc, "relation"))

\* Witness of C1: eight pool threads, tasks that waited for the node lock, and
\* a returned map whose four nodes are not in document order
C1_Witness ==
    /\ result.status = "ok"
    /\ cfg.workers = 8
    /\ Len(result.map.nodeList) = 4
    /\ result.map.nodeList # Parsed(doc, "node")
    /\ Len(result.map.wayList) = 1 /\ Len(result.map.relationList) = 1

\* C2: the identifier sets of the returned map are those of the document's
\* parsable elements, whatever the size of the pool (1, 2, 8) and the
\* scheduling; only the order of the lists differs.
C2_SameIdSets ==
    result.status = "ok" =>
        /\ cfg.workers \in {1, 2, 8}
        /\ IdsOf(result.map.nodeList) =
              {doc.children[p].id : p \in {q \in 1..Len(doc.children) :
                  doc.children[q].name = "node" /\ doc.children[q].ok}}
        /\ IdsOf(result.map.wayList) =
              {doc.children[p].id : p \in {q \in 1..Len(doc.children) :
                  doc.children[q].name = "way" /\ doc.children[q].ok}}
        /\ IdsOf(result.map.relationList) =
              {doc.children[p].id : p \in {q \in 1..Len(doc.children) :
                  doc.children[q].name = "relation" /\ doc.children[q].ok}}

\* Witness of C2: a pool of two threads returned the three node identifiers
\* of the long document with the last node of the document first
C2_Witness ==
    /\ result.status = "ok"
    /\ cfg.workers = 2
    /\ IdsOf(result.map.nodeList) = {1, 2, 3}
    /\ result.map.nodeList[1].id = 3

\* The map parseXMLMap returns is the one IngestedMap builds from its lists
ResultIsIngestedMap ==
    result.status = "ok" =>
        /\ result.map = IngestedMap(result.map.nodeList, result.map.wayList,
                                    result.map.relationList)
        /\ IndexValid(result.map)
        /\ BoundsEnclose(result.map)

\* The documents C12 speaks of: the file cannot be opened or read, the
\* document does not parse, the osm element or its meta child is missing
Rejected(d) ==
    \/ ~d.readable
    \/ ~d.wellFormed
    \/ ~d.osm
    \/ "meta" \notin {d.children[p].name : p \in 1..Len(d.children)}

\* C12: for such a document parseXMLMap reports a failure: no task is ever
\* started, no shared list or map is written, no lock is taken, no map is
\* returned, and the one step the call makes ends it with the error.
C12_FatalBeforeAnyTask ==
    /\ Rejected(doc) =>
          /\ task = <<>>
          /\ info = ParseInfo
          /\ lock = Unlocked
          /\ result.status \in {"none", "error"}
          /\ result.map = XMLMapEmpty
    /\ [][Rejected(doc) => result'.status = "error"]_vars

\* Witness of C12: the call has failed on a readable, well-formed document
\* with an osm element that holds a node but no meta child
C12_Witness ==
    /\ result.status = "error"
    /\ doc.readable /\ doc.wellFormed /\ doc.osm
    /\ \E p \in 1..Len(doc.children) : doc.children[p].name = "node"
    /\ task = <<>> /\ info = ParseInfo

\* C13: parseXMLMap has returned a map only when each of the eight tasks has
\* finished its striped range and its forced merges (nothing left in a local
\* list, no lock held), and the map is built from the shared lists as they
\* are then.
C13_ReturnsAfterAllTasks ==
    result.status = "ok" =>
        /\ Len(task) = threads
        /\ \A k \in 1..Len(task) :
              /\ task[k].pc = "done"
              /\ task[k].pos >= Len(doc.children)
              /\ task[k].localNodeList = <<>>
              /\ task[k].localWayList = <<>>
              /\ task[k].localRelationList = <<>>
        /\ lock = Unlocked
        /\ result.map.nodeList = info.nodeList
        /\ result.map.wayList = info.wayList
        /\ result.map.relationList = info.relationList

\* Witness of C13: the call has returned after tasks ran side by side and
\* two of them handled two elements each
C13_Witness ==
    /\ result.status = "ok"
    /\ cfg.workers = 2
    /\ Len(doc.children) > threads + 1
    /\ \A k \in 1..Len(task) : task[k].pc = "done"
    /\ Len(info.nodeList) + Len(info.wayList) + Len(info.relationList) = 6

\* C14: in the map parseXMLMap returns no two entities of a kind share an
\* identifier: each index map has as many entries as its list has entities.
C14_IdentifiersUnique ==
    result.status = "ok" =>
        /\ Cardinality(DOMAIN result.map.nodeMap) = Len(result.map.nodeList)
        /\ Cardinality(DOMAIN result.map.wayMap) = Len(result.map.wayList)
        /\ Cardinality(DOMAIN result.map.relationMap) = Len(result.map.relationList)
        /\ \A p, q \in 1..Len(result.map.nodeList) :
              result.map.nodeList[p].id = result.map.nodeList[q].id => p = q

\* The node elements C15 speaks of: one of id, version, lat, lon is missing
\* or its text does not convert (no leading number, or out of range)
SkippedNode(el) ==
    /\ el.name = "node"
    /\ \E d \in el.bad : /\ d[1] \in {"id", "version", "lat", "lon"}
                         /\ d[2] \in {"missing", "text", "range"}

\* The document without these elements
WithoutSkippedNodes(d) ==
    LET Keep(el) == ~SkippedNode(el)
    IN  [d EXCEPT !.children = SelectSeq(d.children, Keep)]

RECURSIVE NodeEntities(_, _)
\* The node of every node element from child p on
NodeEntities(d, p) ==
    IF p > Len(d.children) THEN <<>>
    ELSE (IF d.children[p].name = "node" THEN <<parseNode(d.children[p])>> ELSE <<>>)
            \o NodeEntities(d, p + 1)

\* C15: a node element with id, version, lat or lon missing or not
\* convertible adds nothing to any local or shared list, and the map returned
\* holds what the document without these elements yields.
C15_BadNodeSkipped ==
    /\ \A p \in 1..Len(doc.children) :
          SkippedNode(doc.children[p]) =>
              /\ parseNode(doc.children[p]) \notin Range(info.nodeList)
              /\ \A k \in 1..Len(task) :
                    parseNode(doc.children[p]) \notin Range(task[k].localNodeList)
    /\ \A k \in 1..Len(task) :
          Len(task[k].localNodeList) + Len(task[k].localWayList)
              + Len(task[k].localRelationList)
            <= Cardinality({p \in 1..Len(doc.children) :
                              /\ (p - 1) % threads = k - 1
                              /\ ~SkippedNode(doc.children[p])})
    /\ result.status = "ok" =>
          /\ SameEntities(result.map.nodeList,
                          NodeEntities(WithoutSkippedNodes(doc), 1))
          /\ SameEntities(result.map.wayList, Parsed(WithoutSkippedNodes(doc), "way"))
          /\ SameEntities(result.map.relationList,
                          Parsed(WithoutSkippedNodes(doc), "relation"))

\* Witness of C15: the map of the long document, whose node with a lat that
\* is no number was skipped and whose four other nodes were ingested
C15_Witness ==
    /\ result.status = "ok"
    /\ \E p \in 1..Len(doc.children) :
          SkippedNode(doc.children[p]) /\ <<"lat", "text">> \in doc.children[p].bad
    /\ Len(result.map.nodeList) = 4
    /\ IdsOf(result.map.nodeList) = {1, 2, 3}

\* C16: a tag child without k or without v is dropped from the tag list of
\* its parent and ingestion goes on: no task is ever aborted by it, and the
\* entities of a returned map carry exactly their complete tags.
C16_BadTagDropped ==
    /\ result.status # "crash"
    /\ \A k \in 1..Len(task) : task[k].pc # "crashed"
    /\ result.status = "ok" =>
          \A p \in 1..Len(doc.children) :
              (doc.children[p].name = "node" /\ doc.children[p].ok) =>
                  \E q \in 1..Len(result.map.nodeList) :
                      /\ result.map.nodeList[q].id = doc.children[p].id
                      /\ result.map.nodeList[q].ver = doc.children[p].ver
                      /\ result.map.nodeList[q].tags =
                            LET Complete(t) == t.hasK /\ t.hasV
                                kept == SelectSeq(doc.children[p].tags, Complete)
                            IN  [i \in 1..Len(kept) |-> <<kept[i].k, kept[i].v>>]

\* The positions of the children of the osm element, the first being 0
Positions == 0..(Len(doc.children) - 1)

\* The tasks whose loop has handled the child at position p
HandledBy(p) == {k \in 1..Len(task) : p \in task[k].handled}

\* C20: the task of offset k handles exactly the children at the positions p
\* with p mod stripes = k: never another one, all of them once its loop has
\* ended, so that no child is handled by two tasks and, when parseXMLMap
\* returns, every child has been handled by one.
C20_StripedPositions ==
    /\ \A k \in 1..Len(task) :
          LET stripe == {p \in Positions : p % threads = task[k].local.start}
          IN  /\ task[k].handled \subseteq stripe
              /\ task[k].pc \in {"force", "update", "done"} => task[k].handled = stripe
    /\ \A p \in Positions : Cardinality(HandledBy(p)) <= 1
    /\ result.status = "ok" => \A p \in Positions : Cardinality(HandledBy(p)) = 1

\* Witness of C20: the call has returned for a document with more children
\* than stripes; the first two tasks handled two children each
C20_Witness ==
    /\ result.status = "ok"
    /\ Len(doc.children) = threads + 2
    /\ task[1].handled = {0, threads}
    /\ task[2].handled = {1, threads + 1}
    /\ task[3].handled = {2}

\* Witness of C20 for a document with fewer children than stripes: the tasks
\* of the offsets behind the last child handled nothing
C20_FewChildren ==
    /\ result.status = "ok"
    /\ Len(doc.children) = 5
    /\ \A k \in 1..Len(task) :
          task[k].handled = IF k <= 5 THEN {k - 1} ELSE {}

\* ------------------------------------------------------- claims on merging

\* The step is task k handling an element of its loop
Handles(k) ==
    /\ k <= Len(task') /\ task[k].pc = "loop"
    /\ task'[k].handled # task[k].handled

\* The element task k handles next and the local list of its kind with the
\* element parsed
NextChild(k) == doc.children[task[k].pos + 1]
BatchAfter(k) == LocalList(ParseLocal(task[k], NextChild(k)), KindOf(NextChild(k)))

\* The entities of the list are in the shared list of the kind
InShared(inf, kind, list) ==
    Range(list) \subseteq
        Range(CASE kind = "nodes" -> inf.nodeList
                [] kind = "ways" -> inf.wayList
                [] kind = "relations" -> inf.relationList)

\* C21: whenever the local list of a kind has reached mergeSize entries after
\* an element was parsed and the lock of the kind is free, the task takes the
\* lock; and a task that leaves such a merge has its list in the shared list
\* and its local list empty.
C21_MergeAtThreshold ==
    [][\A k \in 1..Len(task) :
          /\ (/\ Handles(k)
              /\ KindOf(NextChild(k)) # "none"
              /\ Len(BatchAfter(k)) >= Blocks(mergeSize)
              /\ CanLock(lock, KindOf(NextChild(k))))
                => /\ lock'[KindOf(NextChild(k))] = k
                   /\ task'[k].pc = "update"
          /\ (task[k].pc = "update" /\ task[k].opp /\ task'[k].pc = "loop")
                => /\ InShared(info', Kinds[task[k].kind],
                               LocalList(task[k], Kinds[task[k].kind]))
                   /\ LocalList(task'[k], Kinds[task[k].kind]) = <<>>]_vars

\* tryMerge of task k is about to find the lock of the kind held
Contended(k) ==
    /\ task[k].pc = "loop" /\ task[k].pos < Len(doc.children)
    /\ KindOf(NextChild(k)) # "none"
    /\ task[k].local.merge
    /\ Len(BatchAfter(k)) >= Blocks(1024 * 16)
    /\ lock[KindOf(NextChild(k))] \notin {0, k}

\* C22: a task whose tryMerge finds the lock held goes on with its loop in
\* the same step: the local list keeps all it had and the parsed element,
\* the shared lists, maps and locks are as before; and when parseXMLMap
\* returns every local list is empty and its entities are in the shared lists.
C22_ContendedMergeMovesOn ==
    /\ [][\A k \in 1..Len(task) :
            (Contended(k) /\ Handles(k)) =>
                /\ task'[k].pc = "loop"
                /\ LocalList(task'[k], KindOf(NextChild(k))) = BatchAfter(k)
                /\ info' = info
                /\ lock' = lock]_vars
    /\ [](result.status = "ok" =>
            /\ \A k \in 1..Len(task) :
                  \A kind \in Range(Kinds) : LocalList(task[k], kind) = <<>>
            /\ SameEntities(info.nodeList, Parsed(doc, "node"))
            /\ SameEntities(info.wayList, Parsed(doc, "way"))
            /\ SameEntities(info.relationList, Parsed(doc, "relation")))

\* Witness of C22: a task is back in its loop with a local list of 16K
\* entries, which tryMerge left alone, while another task holds the lock
C22_Witness ==
    \E k \in 1..Len(task) :
        /\ task[k].local.merge
        /\ task[k].pc = "loop"
        /\ Len(task[k].localNodeList) >= Blocks(1024 * 16)
        /\ lock.nodes \notin {0, k}

\* A task has gone through an opportunistic merge and parseXMLMap returned
C22_MergedLater ==
    /\ result.status = "ok"
    /\ \E k \in 1..Len(task) :
          /\ Cardinality(task[k].handled) = 2
          /\ \E p \in task[k].handled : doc.children[p + 1].name = "node"

\* The shared list and the index map of a kind
SharedOf(inf, kind) ==
    CASE kind = "nodes" -> <<inf.nodeList, inf.nodeMap>>
      [] kind = "ways" -> <<inf.wayList, inf.wayMap>>
      [] kind = "relations" -> <<inf.relationList, inf.relationMap>>

\* C23: a step that appends to a shared list or writes its index map is a
\* turn of the update loop of the one task that holds the lock of the kind,
\* before and after the step; no step changes the lists of two kinds.
C23_WritesUnderLock ==
    [][\A kind \in Range(Kinds) :
          SharedOf(info', kind) # SharedOf(info, kind) =>
              /\ lock[kind] \in 1..Len(task)
              /\ lock'[kind] = lock[kind]
              /\ task[lock[kind]].pc = "update"
              /\ Kinds[task[lock[kind]].kind] = kind
              /\ task'[lock[kind]].i = task[lock[kind]].i + 1
              /\ \A j \in 1..Len(task) : j # lock[kind] => task'[j] = task[j]
              /\ \A other \in Range(Kinds) \ {kind} :
                    SharedOf(info', other) = SharedOf(info, other)]_vars

\* Witness of C23: a task is inside an opportunistic merge and has appended
\* to the shared node list under lockNodes while another task waits for the
\* same lock in its forced merge
C23_Witness ==
    \E k, j \in 1..Len(task) :
        /\ task[k].pc = "update" /\ task[k].opp /\ task[k].i > 1
        /\ lock.nodes = k
        /\ info.nodeList # <<>>
        /\ task[j].pc = "force" /\ Kinds[task[j].kind] = "nodes"

\* The locks task k holds
Held(k) == {kind \in Range(Kinds) : lock[kind] = k}

\* C24: a task holds at most one lock and, while it holds one, is inside the
\* update of that kind: it neither waits for nor tries another lock; so a
\* task waiting for a lock that is free can take it, whatever the other two
\* locks are (as long as the process runs).
C24_OneLockAtATime ==
    result.status # "crash" =>
        /\ \A k \in 1..Len(task) :
              /\ Cardinality(Held(k)) <= 1
              /\ \A kind \in Held(k) :
                    task[k].pc = "update" /\ Kinds[task[k].kind] = kind
        /\ \A j \in 1..Len(task) :
              (task[j].pc = "force" /\ lock[Kinds[task[j].kind]] = 0)
                  => ENABLED ForceMergeLock(j)

\* Witness of C24: two tasks merge under the locks of two kinds at once
\* while a third waits for one of the two locks
C24_Witness ==
    /\ lock.nodes # 0 /\ lock.ways # 0
    /\ lock.nodes # lock.ways
    /\ info.nodeList # <<>> /\ info.wayList # <<>>
    /\ \E j \in 1..Len(task) : task[j].pc = "force" /\ Kinds[task[j].kind] = "nodes"

\* parseXMLMap has returned a map or thrown
IngestReturned == result.status \in {"ok", "error"}

\* C25: for every document and every pool size the tasks finish and
\* parseXMLMap returns: no state short of the return is without a next step.
C25_ReturnsOrCanStep == IngestReturned \/ ENABLED Next

\* The same but for the process having ended in parseTag
C25_UnlessCrashed == result.status = "crash" \/ C25_ReturnsOrCanStep

\* -------------------------------------------- claims on the pure reduce

RECURSIVE StripeBatch(_, _, _, _)
\* The batch of a kind a task keeps for its whole range: the entities of the
\* children at positions p, p + stride, ... (the first child being 0)
StripeBatch(d, name, p, stride) ==
    IF p >= Len(d.children) THEN <<>>
    ELSE LET el == d.children[p + 1]
             e == CASE name = "node" -> parseNode(el)
                    [] name = "way" -> parseWay(el)
                    [] name = "relation" -> parseRelation(el)
         IN  (IF el.name = name /\ el.ok THEN <<e>> ELSE <<>>)
                 \o StripeBatch(d, name, p + stride, stride)

RECURSIVE ReduceFrom(_, _, _)
\* One thread folds the batches of the tasks from offset k on into inf
ReduceFrom(d, k, inf) ==
    IF k >= threads THEN inf
    ELSE ReduceFrom(d, k + 1,
            UpdateFrom(
              UpdateFrom(
                UpdateFrom(inf, "nodes", StripeBatch(d, "node", k, threads), 1),
                "ways", StripeBatch(d, "way", k, threads), 1),
              "relations", StripeBatch(d, "relation", k, threads), 1))

\* The pure reduce: private batches, folded after all tasks joined
PureReduce(d) == ReduceFrom(d, 0, ParseInfo)

\* The index map resolves every identifier of the list to an entity of the
\* list with that identifier
Resolves(list, map) ==
    \A id \in IdsOf(list) :
        /\ id \in DOMAIN map
        /\ map[id] >= 0 /\ map[id] < Len(list)
        /\ At(list, map[id]).id = id

\* C26: the map parseXMLMap's merge protocol ends with and the pure reduce
\* of the same document hold the same entities of each kind, and in both the
\* index maps resolve every identifier to an entity with that identifier.
C26_SameAsPureReduce ==
    result.status = "ok" =>
        LET r == PureReduce(doc)
        IN  /\ SameEntities(result.map.nodeList, r.nodeList)
            /\ SameEntities(result.map.wayList, r.wayList)
            /\ SameEntities(result.map.relationList, r.relationList)
            /\ Resolves(result.map.nodeList, result.map.nodeMap)
            /\ Resolves(result.map.wayList, result.map.wayMap)
            /\ Resolves(result.map.relationList, result.map.relationMap)
            /\ Resolves(r.nodeList, r.nodeMap)
            /\ Resolves(r.wayList, r.wayMap)
            /\ Resolves(r.relationList, r.relationMap)

\* Witness of C26: parseXMLMap's lists were built with an opportunistic merge
\* and the node list is in another order than the one the pure reduce gives
C26_Witness ==
    /\ result.status = "ok"
    /\ \E k \in 1..Len(task) : task[k].opp
    /\ result.map.nodeList # PureReduce(doc).nodeList
    /\ result.map.nodeMap # PureReduce(doc).nodeMap

\* ------------------------------------------------- claims on the built Graph

\* graph is the Graph built from m, the reads outside m's node list having
\* yielded gn
BuiltFrom(m, gn) == fr.pc = "idle" /\ graph = Graph(m, gn)

\* The identifiers the ways of m refer to
WayRefs(m) == UNION {Range(m.wayList[w].nodes) : w \in 1..Len(m.wayList)}

\* Node a of g has an edge to b of the weight
HasEdge(g, a, b, weight) ==
    /\ a \in DOMAIN g.graphMap
    /\ g.graphMap[a] >= 0 /\ g.graphMap[a] < Len(g.graphBuffer)
    /\ \E e \in Range(At(g.graphBuffer, g.graphMap[a]).connections) :
          e.goal = b /\ e.weight = weight

\* Every pair of consecutive references of every way of m is connected in g
\* in both directions, with the distance of the two nodes where m has both
PairsConnected(m, g) ==
    \A w \in 1..Len(m.wayList) :
        \A i \in 1..(Len(m.wayList[w].nodes) - 1) :
            LET a == m.wayList[w].nodes[i]
                b == m.wayList[w].nodes[i + 1]
            IN  \E weight \in 0..FltMax :
                   /\ HasEdge(g, a, b, weight)
                   /\ HasEdge(g, b, a, weight)
                   /\ (hasNodeIndex(m, a) /\ hasNodeIndex(m, b))
                         => weight = Distance(getNode(m, a), getNode(m, b))

\* C27: for every way and every pair of consecutive references (a, b) of it,
\* negative identifiers included, the built Graph has the edges a->b and
\* b->a, both of the same non-negative weight, the distance of the two nodes.
C27_WayPairsConnected ==
    \A m \in RouteSources, gn \in GarbageNodes :
        BuiltFrom(m, gn) => PairsConnected(m, graph)

\* C27 for the maps without the identifier -1
C27_WithoutMinusOne ==
    \A m \in RouteSources, gn \in GarbageNodes :
        (BuiltFrom(m, gn) /\ -1 \notin WayRefs(m)) => PairsConnected(m, graph)

\* The index map of g resolves the identifier of every GraphNode to its
\* own position, and every edge leads to an existing GraphNode
Consistent(g) ==
    /\ \A p \in 0..(Len(g.graphBuffer) - 1) :
          /\ At(g.graphBuffer, p).nodeID \in DOMAIN g.graphMap
          /\ g.graphMap[At(g.graphBuffer, p).nodeID] = p
    /\ \A p \in 0..(Len(g.graphBuffer) - 1) :
          \A e \in Range(At(g.graphBuffer, p).connections) :
              /\ e.goal \in DOMAIN g.graphMap
              /\ g.graphMap[e.goal] >= 0 /\ g.graphMap[e.goal] < Len(g.graphBuffer)

\* One GraphNode for each identifier the ways of m refer to
OneNodePerRef(m, g) ==
    /\ Len(g.graphBuffer) = Cardinality(WayRefs(m))
    /\ \A id \in WayRefs(m) :
          Cardinality({p \in 1..Len(g.graphBuffer) : g.graphBuffer[p].nodeID = id}) = 1

\* C28: the built Graph has exactly one GraphNode for each identifier some
\* way refers to, the index map resolves the identifier of every GraphNode to
\* its own position, and every edge's target resolves to a GraphNode.
C28_BuiltGraphConsistent ==
    \A m \in RouteSources, gn \in GarbageNodes :
        BuiltFrom(m, gn) => (OneNodePerRef(m, graph) /\ Consistent(graph))

\* C28 for the maps whose ways refer to nodes of the map only
C28_OnClosedSources ==
    \A m \in RouteSources, gn \in GarbageNodes :
        (BuiltFrom(m, gn) /\ AbsentRefs(m) = {})
            => (OneNodePerRef(m, graph) /\ Consistent(graph))

\* C29: checkConsistency returns true exactly for a graph whose index map
\* resolves every GraphNode's identifier to its own position and whose edges
\* all lead to existing GraphNodes.
C29_CheckConsistencyExact ==
    fr.pc # "nograph" => (checkConsistency(graph) <=> Consistent(graph))

\* C30: findRoute leaves the Graph as it is: node buffer, adjacency lists
\* and index map, for every start and goal.
C30_FindRouteKeepsGraph == [][graph' = graph]_vars

\* C30 for calls whose start is a node of the graph
C30_KnownStart ==
    [][(fr.pc = "idle" /\ fr'.pc # "idle" /\ fr'.start \in DOMAIN graph.graphMap)
          => graph' = graph]_vars

\* ------------------------------------------- claims on the search of findRoute

\* A call is running or has ended
Called == fr.pc \notin {"idle", "nograph"}

\* C31: for every start that is a graph node a call of findRoute comes to
\* its end by returning a route, the empty one when it found the queue
\* empty: no state of a call short of the return is without a next step.
C31_ReturnsOrCanStep ==
    (Called /\ IsGraphNode(graph, fr.start)) => (fr.pc = "done" \/ ENABLED RouteNext)

\* For goal # start every call with a start in the graph returns
C31_TerminatesForDistinct ==
    (Called /\ IsGraphNode(graph, fr.start) /\ fr.start # fr.goal) ~> (fr.pc = "done")

\* The queue holds two entries of one node
C31_DuplicateEntries ==
    /\ fr.pc = "loop"
    /\ \E a, b \in 1..Len(fr.queue) : a # b /\ fr.queue[a] = fr.queue[b]

\* C32: while findRoute handles a popped entry of a node that is already
\* marked visited, no step changes a distance, a back-pointer or a visited
\* flag; nor does the pop itself.
C32_StalePopChangesNoRecord ==
    [][(\/ fr.pc = "edges" /\ fr.nodes[fr.cur + 1].visited
        \/ fr.pc = "loop" /\ fr'.pc = "edges")
          => fr'.nodes = fr.nodes]_vars

\* Witness of C32: the edge loop of an entry of a visited node has passed an
\* edge to a neighbour that is not visited
C32_Witness ==
    /\ fr.pc = "edges"
    /\ fr.nodes[fr.cur + 1].visited
    /\ \E k \in 1..(fr.i - 1) :
          ~fr.nodes[graph.graphMap[graph.graphBuffer[fr.cur + 1].connections[k].goal] + 1].visited

\* C33: a turn of the edge loop pushes the neighbour only when it lowered
\* the neighbour's distance.
C33_PushOnlyWhenLowered ==
    [][(fr.pc = "edges" /\ fr'.pc = "edges" /\ Len(fr'.queue) > Len(fr.queue))
          => \E p \in 1..Len(fr.nodes) :
                /\ fr'.nodes[p].distance < fr.nodes[p].distance
                /\ fr'.queue = Append(fr.queue, p - 1)]_vars

RECURSIVE ChainEnd(_, _, _, _)
\* Following the back-pointers of frame f from position p: the position
\* without a back-pointer the chain ends at, or -2 when the chain comes back
\* to a position it has passed
ChainEnd(f, p, seen, fuel) ==
    IF p \in seen \/ fuel = 0 THEN -2
    ELSE IF f.nodes[p + 1].previous = NullPrev THEN p
    ELSE ChainEnd(f, f.nodes[p + 1].previous, seen \cup {p}, fuel - 1)

\* C34: in a call whose start is a graph node the record of start has no
\* back-pointer; from every record that has one the back-pointers lead,
\* without passing a record twice, to the record of start; and the walk
\* from a popped goal other than start ends at start.
C34_BackPointersLeadToStart ==
    (Called /\ fr.nodes # <<>> /\ IsGraphNode(graph, fr.start)) =>
        /\ fr.nodes[graph.graphMap[fr.start] + 1].previous = NullPrev
        /\ \A p \in 0..(Len(fr.nodes) - 1) :
              fr.nodes[p + 1].previous # NullPrev =>
                  ChainEnd(fr, p, {}, Len(fr.nodes) + 1) = graph.graphMap[fr.start]
        /\ fr.start # fr.goal => fr.pc # "ub"
        /\ (fr.pc = "done" /\ fr.route # <<>> /\ fr.start # fr.goal) =>
              /\ fr.route[1] = fr.goal
              /\ NodeIdAt(graph, fr.nodes[graph.graphMap[fr.route[Len(fr.route)]] + 1].previous)
                    = fr.start

\* Witness of C34: a call has returned a route of three nodes that the walk
\* took from the back-pointers
C34_Witness ==
    /\ fr.pc = "done"
    /\ IsGraphNode(graph, fr.start)
    /\ fr.start # fr.goal
    /\ Len(fr.route) >= 3

\* --------------------------------------------- claims on lookups and bounds

\* The identifiers findNodes on m calls getNode with: every reference of
\* every way funcWays accepts
FindLookups(m, funcWays) ==
    UNION {Range(m.wayList[i].nodes) :
              i \in {j \in 1..Len(m.wayList) : WayAccepted(funcWays, m.wayList[j])}}

\* The step is a call of findNodes or findSquareNodes on seg
FindStep ==
    nops' = nops + 1 /\ op'.name \in {"findNodes", "findSquareNodes", "crash"}

\* C35: every getNode of a call of findNodes is for an identifier that the
\* node index holds, also when ways of the map refer to absent nodes.
C35_LookupsInIndex ==
    [][FindStep => FindLookups(seg, op'.fW) \subseteq DOMAIN seg.nodeMap]_vars

\* C35 for maps whose ways refer to nodes of the map only
C35_OnClosedMaps ==
    [][(FindStep /\ AbsentRefs(seg) = {})
          => FindLookups(seg, op'.fW) \subseteq DOMAIN seg.nodeMap]_vars

\* ------------------------------------- claims on nd and member children

\* The pairs of the tag children of element el that have both k and v
CompleteTags(el) ==
    LET Complete(t) == t.hasK /\ t.hasV
        kept == SelectSeq(el.tags, Complete)
    IN  [i \in 1..Len(kept) |-> <<kept[i].k, kept[i].v>>]

\* The refs of the nd children of way element el whose ref attribute is
\* there and starts with a number of the range of int64_t, in document order
NumericRefs(el) ==
    LET Numeric(nd) == nd.defect \in {"none", "prefix"}
        kept == SelectSeq(el.refs, Numeric)
    IN  [i \in 1..Len(kept) |-> kept[i].ref]

\* el is a way element that parseWay accepts and that has an nd child
\* without ref or with a ref that is no number
WayWithBadNd(el) ==
    /\ el.name = "way" /\ el.ok
    /\ \E i \in 1..Len(el.refs) : el.refs[i].defect \in {"missing", "text"}

\* C36: in a returned map every way element with id and version is a way
\* whose node list is the numeric refs of its nd children in document order,
\* nd children without ref or with a ref that is no number being left out and
\* nothing else, and whose tags are its tags; also when no ref is left.
C36_BadNdLosesOnlyItself ==
    result.status = "ok" =>
        \A p \in 1..Len(doc.children) :
            (doc.children[p].name = "way" /\ doc.children[p].ok) =>
                \E q \in 1..Len(result.map.wayList) :
                    result.map.wayList[q] =
                        OSMWay(doc.children[p].id, doc.children[p].ver,
                               NumericRefs(doc.children[p]),
                               CompleteTags(doc.children[p]))

\* Witness of C36: a returned map with a way that lost nd children and kept
\* three references
C36_Witness ==
    /\ result.status = "ok"
    /\ \E p \in 1..Len(doc.children) :
          /\ WayWithBadNd(doc.children[p])
          /\ \E q \in 1..Len(result.map.wayList) :
                /\ result.map.wayList[q].id = doc.children[p].id
                /\ result.map.wayList[q].nodes = <<1, 2, 3>>
                /\ result.map.wayList[q].tags # <<>>

\* A returned map with a way none of whose nd children had a usable ref
C36_NoRefLeft ==
    /\ result.status = "ok"
    /\ \E p \in 1..Len(doc.children) :
          /\ WayWithBadNd(doc.children[p])
          /\ \E q \in 1..Len(result.map.wayList) :
                /\ result.map.wayList[q].id = doc.children[p].id
                /\ result.map.wayList[q].nodes = <<>>
                /\ result.map.wayList[q].tags # <<>>

\* The members of relation element el that have type, ref and role, a ref
\* that starts with a number, and the given type, in document order
MembersOfType(el, type) ==
    LET Usable(m) == /\ \A d \in m.bad : d[2] \notin {"missing", "text", "range"}
                     /\ m.type = type
        kept == SelectSeq(el.members, Usable)
    IN  [i \in 1..Len(kept) |-> RelationMember(kept[i].ref, kept[i].role)]

\* el is a relation element that parseRelation accepts and that has a member
\* of an unknown type and members without type, ref and role
RelationWithBadMembers(el) ==
    /\ el.name = "relation" /\ el.ok
    /\ \E i \in 1..Len(el.members) :
          el.members[i].type \notin {"node", "way", "relation"} /\ el.members[i].bad = {}
    /\ \A a \in {"type", "ref", "role"} :
          \E i \in 1..Len(el.members) : <<a, "missing">> \in el.members[i].bad
    /\ \E i \in 1..Len(el.members) : <<"ref", "text">> \in el.members[i].bad

\* C37: in a returned map every relation element with id and version is a
\* relation whose three member lists hold, each for its type and in document
\* order, the members that have type, ref and role and a numeric ref; a
\* member of another type or without one of these is in none of the lists;
\* the relation has its tags.
C37_BadMemberDropped ==
    result.status = "ok" =>
        \A p \in 1..Len(doc.children) :
            (doc.children[p].name = "relation" /\ doc.children[p].ok) =>
                \E q \in 1..Len(result.map.relationList) :
                    result.map.relationList[q] =
                        OSMRelation(doc.children[p].id, doc.children[p].ver,
                                    CompleteTags(doc.children[p]),
                                    MembersOfType(doc.children[p], "node"),
                                    MembersOfType(doc.children[p], "way"),
                                    MembersOfType(doc.children[p], "relation"))

\* Witness of C37: a returned map with a relation that lost five members and
\* kept two node members, a way member and a relation member
C37_Witness ==
    /\ result.status = "ok"
    /\ \E p \in 1..Len(doc.children) :
          /\ RelationWithBadMembers(doc.children[p])
          /\ \E q \in 1..Len(result.map.relationList) :
                /\ result.map.relationList[q].id = doc.children[p].id
                /\ result.map.relationList[q].nodes =
                      <<RelationMember(1, "stop"), RelationMember(3, "")>>
                /\ result.map.relationList[q].ways = <<RelationMember(1, "outer")>>
                /\ result.map.relationList[q].relations = <<RelationMember(2, "sub")>>
                /\ result.map.relationList[q].tags = <<<<"type", "route">>>>

\* ------------------------------------------- claims on the exact rectangle

\* The least and the greatest value of a non-empty list
Least(vals) == CHOOSE v \in Range(vals) : \A w \in Range(vals) : v <= w
Greatest(vals) == CHOOSE v \in Range(vals) : \A w \in Range(vals) : v >= w

\* The rectangle of m is exactly the extent of its nodes
BoundsExact(m) ==
    /\ m.lowerLat = Least(Lats(m.nodeList))
    /\ m.upperLat = Greatest(Lats(m.nodeList))
    /\ m.lowerLon = Least(Lons(m.nodeList))
    /\ m.upperLon = Greatest(Lons(m.nodeList))

\* C38: after recalculateBoundaries on a Segment with at least one node the
\* rectangle is (min lat, max lat, min lon, max lon) of the nodes, whatever
\* the sign of the coordinates.
C38_RecalculatedBoundsExact ==
    (op.name = "recalculateBoundaries" /\ seg.nodeList # <<>>) => BoundsExact(seg)

\* C38 for Segments with a node of positive latitude and one of positive
\* longitude
C38_WithPositiveCoordinates ==
    (/\ op.name = "recalculateBoundaries"
     /\ \E i \in 1..Len(seg.nodeList) : seg.nodeList[i].lat > 0
     /\ \E i \in 1..Len(seg.nodeList) : seg.nodeList[i].lon > 0) => BoundsExact(seg)

\* ------------------------------------------------- claims on hasTagValue

\* The values hasTagValue is asked for: those of the tag lists, and one of
\* no list
TagValues == {"", "x", "y", "primary", "path", "r", "none"}

\* C39: hasTagValue(key, value) is true exactly when hasTag(key) is true and
\* getValue(key) is value, also for an entity in which the key occurs more
\* than once.
C39_HasTagValueIsGetValue ==
    op.name = "getValue" =>
        LET obj == OSMNode(1, 1, op.tags, 0, 0)
        IN  \A value \in TagValues :
                hasTagValue(obj, op.key, value)
                    <=> (hasTag(obj, op.key) /\ getValue(obj, op.key) = value)

\* C39 for entities in which the key occurs at most once
C39_OnSingleKeys ==
    (op.name = "getValue" /\ Cardinality(KeyPositions(op.tags, op.key)) <= 1) =>
        LET obj == OSMNode(1, 1, op.tags, 0, 0)
        IN  \A value \in TagValues :
                hasTagValue(obj, op.key, value)
                    <=> (hasTag(obj, op.key) /\ getValue(obj, op.key) = value)

\* --------------------------------------------- claims on cyclic relations

\* Every member of every relation of map is an entity of map
MembersResolve(map) ==
    \A i \in 1..Len(map.relationList) :
        /\ \A k \in 1..Len(map.relationList[i].nodes) :
              map.relationList[i].nodes[k].index \in DOMAIN map.nodeMap
        /\ \A k \in 1..Len(map.relationList[i].ways) :
              map.relationList[i].ways[k].index \in DOMAIN map.wayMap
        /\ \A k \in 1..Len(map.relationList[i].relations) :
              map.relationList[i].relations[k].index \in DOMAIN map.relationMap

RECURSIVE RelationsFrom(_, _)
\* The identifiers of the relations of map that the relations ids lead to
\* through relation members, themselves included
RelationsFrom(map, ids) ==
    LET more == ids \cup UNION {{getRelation(map, r).relations[k].index :
                                    k \in 1..Len(getRelation(map, r).relations)} :
                                r \in ids}
    IN  IF more = ids THEN ids ELSE RelationsFrom(map, more)

\* The identifiers of the ways that are members of these relations
WaysFrom(map, rels) ==
    UNION {{getRelation(map, r).ways[k].index :
               k \in 1..Len(getRelation(map, r).ways)} : r \in rels}

\* The identifiers of the nodes that are members of these relations or
\* referred to by these ways
NodesFrom(map, rels, ways) ==
    UNION {{getRelation(map, r).nodes[k].index :
               k \in 1..Len(getRelation(map, r).nodes)} : r \in rels}
      \cup UNION {Range(getWay(map, w).nodes) : w \in ways}

\* What a call appended to a list: new extends old by entities of pairwise
\* different identifiers, none of them in old, all among ids
AppendedOnce(old, new, ids) ==
    /\ Len(new) >= Len(old)
    /\ SubSeq(new, 1, Len(old)) = old
    /\ \A p \in (Len(old) + 1)..Len(new) :
          /\ new[p].id \in ids
          /\ \A q \in 1..Len(new) : new[q].id = new[p].id => q = p

\* The step is a call of addRelation for a relation of the source, and every
\* member of a relation of the source is in the source
AddRelationOfSource ==
    /\ nops' = nops + 1 /\ op'.name = "addRelation"
    /\ op'.id \in DOMAIN src.relationMap
    /\ MembersResolve(src)

\* C40: addRelation for a relation of a source Segment whose member
\* references all resolve returns, also when relations are members of each
\* other, and appends every relation, way and node that the relation leads
\* to at most once, and nothing else.
C40_CyclicMembersAddedOnce ==
    [][AddRelationOfSource =>
          LET rels == RelationsFrom(src, {op'.id})
              ways == WaysFrom(src, rels)
          IN  /\ ~halted'
              /\ AppendedOnce(seg.relationList, seg'.relationList, rels)
              /\ AppendedOnce(seg.wayList, seg'.wayList, ways)
              /\ AppendedOnce(seg.nodeList, seg'.nodeList, NodesFrom(src, rels, ways))]_vars

\* Witness of C40: one call on an empty Segment, for a relation that is a
\* member of its own member, has returned and has added both relations, the
\* way and the two nodes they lead to
C40_Witness ==
    /\ nops = 1 /\ op.name = "addRelation" /\ op.ret /\ ~halted
    /\ MembersResolve(src)
    /\ op.id \in DOMAIN src.relationMap
    /\ getRelation(src, op.id).relations # <<>>
    /\ op.id \in RelationsFrom(src, {getRelation(src, op.id).relations[1].index})
    /\ IdsOf(seg.relationList) = {1, 2} /\ Len(seg.relationList) = 2
    /\ IdsOf(seg.wayList) = {1} /\ Len(seg.wayList) = 1
    /\ IdsOf(seg.nodeList) = {1, 2} /\ Len(seg.nodeList) = 2

====
